---- MODULE Spec2Model ----
(***************************************************************************)
(* Storage layer of Aste_XiaoMeng (model/data_managers.py): the INI record *)
(* store IniFileReader, the JSON document store BaseJsonFileHandler and    *)
(* the catch log UnifiedCreelManager, with the save protocol (file lock,   *)
(* temporary file, rename) they run against a shared data file.            *)
(*                                                                         *)
(* A text is a sequence of one-character strings.  A file is a sequence of *)
(* lines; a line is a record [t, s, k, v].  A write reaches the disk one   *)
(* line at a time, so a file that is being written is a proper prefix of   *)
(* the serialization.                                                      *)
(***************************************************************************)
EXTENDS Integers, Sequences, FiniteSets, TLC

(***************************************************************************)
(* Bounds of the model.                                                    *)
(***************************************************************************)
\* operations each handler calls before it saves, in the concurrent runs
MaxOps == 1
\* time a handler is followed while it polls for the lock
MaxWait == 6
\* length of the texts given to _convert_value
MaxTextLen == 3
\* operations called on one store, in the runs of a single store
MaxCalls == 2

Handlers == {"h1", "h2"}
NoHolder == "none"
Sections == {"u1", "u2"}

(***************************************************************************)
(* Characters and texts.                                                   *)
(***************************************************************************)
UpperLetters == <<"A","B","C","D","E","F","G","H","I","J","K","L","M",
                  "N","O","P","Q","R","S","T","U","V","W","X","Y","Z">>
LowerLetters == <<"a","b","c","d","e","f","g","h","i","j","k","l","m",
                  "n","o","p","q","r","s","t","u","v","w","x","y","z">>
DigitChars == <<"0","1","2","3","4","5","6","7","8","9">>

IsDigit(c) == \E i \in 1..10 : DigitChars[i] = c
DigitVal(c) == (CHOOSE i \in 1..10 : DigitChars[i] = c) - 1
IsSpace(c) == c = " "

\* str.lower() on one character
LowerChar(c) ==
    IF \E i \in 1..26 : UpperLetters[i] = c
    THEN LowerLetters[CHOOSE i \in 1..26 : UpperLetters[i] = c]
    ELSE c

\* str.lower()
Lower(cs) == [i \in 1..Len(cs) |-> LowerChar(cs[i])]

RECURSIVE LStrip(_)
LStrip(cs) == IF cs # <<>> /\ IsSpace(Head(cs)) THEN LStrip(Tail(cs)) ELSE cs

RECURSIVE RStrip(_)
RStrip(cs) ==
    IF cs # <<>> /\ IsSpace(cs[Len(cs)])
    THEN RStrip(SubSeq(cs, 1, Len(cs) - 1))
    ELSE cs

\* str.strip()
Strip(cs) == RStrip(LStrip(cs))

RECURSIVE NatToChars(_)
NatToChars(n) ==
    IF n < 10 THEN <<DigitChars[n + 1]>>
    ELSE NatToChars(n \div 10) \o <<DigitChars[(n % 10) + 1]>>

\* str(int)
IntToChars(n) == IF n < 0 THEN <<"-">> \o NatToChars(0 - n) ELSE NatToChars(n)

(***************************************************************************)
(* Python values, tagged with their type.  A float is a decimal m * 10^e   *)
(* kept normalised (m not a multiple of 10, zero is <<0, 0>>), or one of   *)
(* the specials "inf", "-inf", "nan".                                      *)
(***************************************************************************)
PyInt(n) == [t |-> "int", v |-> n]
PyBool(b) == [t |-> "bool", v |-> b]
PyStr(cs) == [t |-> "str", v |-> cs]
PyNone == [t |-> "none", v |-> 0]

RECURSIVE NormDec(_, _)
NormDec(m, e) ==
    IF m = 0 THEN <<0, 0>>
    ELSE IF m % 10 = 0 THEN NormDec(m \div 10, e + 1)
    ELSE <<m, e>>

PyFloat(m, e) == [t |-> "float", v |-> NormDec(m, e)]
PyFloatSpecial(name) == [t |-> "floatx", v |-> name]

IsPyFloat(x) == x.t \in {"float", "floatx"}

\* Python's == on the scalars above: numbers compare by value across int,
\* float and bool, nan equals nothing, a string equals only the same string.
NumOf(x) ==
    CASE x.t = "int" -> NormDec(x.v, 0)
      [] x.t = "bool" -> NormDec(IF x.v THEN 1 ELSE 0, 0)
      [] x.t = "float" -> x.v

PyEq(x, y) ==
    IF x.t \in {"int", "bool", "float"} /\ y.t \in {"int", "bool", "float"}
    THEN NumOf(x) = NumOf(y)
    ELSE IF x.t = "floatx" /\ y.t = "floatx" THEN x.v = y.v /\ x.v # "nan"
    ELSE IF x.t = "str" /\ y.t = "str" THEN x.v = y.v
    ELSE IF x.t = "none" /\ y.t = "none" THEN TRUE
    ELSE FALSE

(***************************************************************************)
(* int(str) and float(str) of Python, on texts without "_".                *)
(***************************************************************************)
Unsigned(cs) == IF cs # <<>> /\ Head(cs) \in {"+", "-"} THEN Tail(cs) ELSE cs
IsNegative(cs) == cs # <<>> /\ Head(cs) = "-"
AllDigits(cs) == cs # <<>> /\ \A i \in 1..Len(cs) : IsDigit(cs[i])

RECURSIVE DigitsVal(_)
DigitsVal(cs) ==
    IF cs = <<>> THEN 0
    ELSE DigitsVal(SubSeq(cs, 1, Len(cs) - 1)) * 10 + DigitVal(cs[Len(cs)])

\* int(value) does not raise ValueError
IsIntText(cs) == AllDigits(Unsigned(Strip(cs)))

IntOfText(cs) ==
    LET body == Strip(cs)
        n == DigitsVal(Unsigned(body))
    IN  IF IsNegative(body) THEN 0 - n ELSE n

\* index of the first character of cs that is in set, 0 if there is none
FirstIn(cs, set) ==
    IF \E i \in 1..Len(cs) : cs[i] \in set
    THEN CHOOSE i \in 1..Len(cs) : cs[i] \in set /\ \A j \in 1..(i - 1) : cs[j] \notin set
    ELSE 0

FloatSpecialWords == { <<"i","n","f">>, <<"i","n","f","i","n","i","t","y">>, <<"n","a","n">> }

Mantissa(body) ==
    LET epos == FirstIn(body, {"e", "E"})
    IN  IF epos = 0 THEN body ELSE SubSeq(body, 1, epos - 1)

Exponent(body) ==
    LET epos == FirstIn(body, {"e", "E"})
    IN  IF epos = 0 THEN <<"0">> ELSE SubSeq(body, epos + 1, Len(body))

IntPart(mant) ==
    LET dpos == FirstIn(mant, {"."})
    IN  IF dpos = 0 THEN mant ELSE SubSeq(mant, 1, dpos - 1)

FracPart(mant) ==
    LET dpos == FirstIn(mant, {"."})
    IN  IF dpos = 0 THEN <<>> ELSE SubSeq(mant, dpos + 1, Len(mant))

IsDecimalText(body) ==
    LET mant == Mantissa(body)
        ip == IntPart(mant)
        fp == FracPart(mant)
    IN  /\ ip = <<>> \/ AllDigits(ip)
        /\ fp = <<>> \/ AllDigits(fp)
        /\ ip # <<>> \/ fp # <<>>
        /\ AllDigits(Unsigned(Exponent(body)))

\* float(value) does not raise ValueError
IsFloatText(cs) ==
    LET body == Unsigned(Strip(cs))
    IN  Lower(body) \in FloatSpecialWords \/ IsDecimalText(body)

FloatOfText(cs) ==
    LET stripped == Strip(cs)
        body == Unsigned(stripped)
        neg == IsNegative(stripped)
        mant == Mantissa(body)
        digits == DigitsVal(IntPart(mant) \o FracPart(mant))
        ex == Exponent(body)
        exv == IF IsNegative(ex) THEN 0 - DigitsVal(Unsigned(ex)) ELSE DigitsVal(Unsigned(ex))
    IN  IF Lower(body) = <<"n","a","n">> THEN PyFloatSpecial("nan")
        ELSE IF Lower(body) \in FloatSpecialWords
             THEN PyFloatSpecial(IF neg THEN "-inf" ELSE "inf")
        ELSE PyFloat(IF neg THEN 0 - digits ELSE digits, exv - Len(FracPart(mant)))

RECURSIVE Zeros(_)
Zeros(n) == IF n <= 0 THEN <<>> ELSE <<"0">> \o Zeros(n - 1)

\* str(float) in positional notation (1e-4 <= |x| < 1e16, or zero)
FloatToChars(f) ==
    IF f.t = "floatx" THEN
        CASE f.v = "nan" -> <<"n","a","n">>
          [] f.v = "inf" -> <<"i","n","f">>
          [] f.v = "-inf" -> <<"-","i","n","f">>
    ELSE
        LET m == f.v[1]
            e == f.v[2]
            sign == IF m < 0 THEN <<"-">> ELSE <<>>
            ds == NatToChars(IF m < 0 THEN 0 - m ELSE m)
        IN  IF e >= 0 THEN sign \o ds \o Zeros(e) \o <<".", "0">>
            ELSE IF Len(ds) > 0 - e
                 THEN sign \o SubSeq(ds, 1, Len(ds) + e) \o <<".">>
                           \o SubSeq(ds, Len(ds) + e + 1, Len(ds))
            ELSE sign \o <<"0", ".">> \o Zeros((0 - e) - Len(ds)) \o ds

(***************************************************************************)
(* IniFileReader: value coercion.                                          *)
(***************************************************************************)
TrueWords == { <<"t","r","u","e">>, <<"y","e","s">>, <<"o","n">> }
FalseWords == { <<"f","a","l","s","e">>, <<"n","o">>, <<"o","f","f">> }

\* mutant of _convert_value: the boolean keywords are compared as written,
\* without lower()
_convert_value_case_sensitive(value) ==
    IF IsIntText(value) THEN PyInt(IntOfText(value))
    ELSE IF IsFloatText(value) THEN FloatOfText(value)
    ELSE LET lower_val == Strip(value)
         IN  IF lower_val \in TrueWords THEN PyBool(TRUE)
             ELSE IF lower_val \in FalseWords THEN PyBool(FALSE)
             ELSE PyStr(Strip(value))

_convert_value(value) ==
    IF IsIntText(value) THEN PyInt(IntOfText(value))
    ELSE IF IsFloatText(value) THEN FloatOfText(value)
    ELSE LET lower_val == Lower(Strip(value))
         IN  IF lower_val \in TrueWords THEN PyBool(TRUE)
             ELSE IF lower_val \in FalseWords THEN PyBool(FALSE)
             ELSE PyStr(Strip(value))

_convert_to_ini_string(value) ==
    CASE value.t = "bool" -> IF value.v THEN <<"t","r","u","e">> ELSE <<"f","a","l","s","e">>
      [] value.t = "int" -> IntToChars(value.v)
      [] value.t \in {"float", "floatx"} -> FloatToChars(value)
      [] value.t = "str" -> value.v
      [] value.t = "none" -> <<"N","o","n","e">>

(***************************************************************************)
(* configparser.ConfigParser as IniFileReader uses it.  self.config is a   *)
(* sequence of sections in insertion order, each [name, items], items a    *)
(* sequence of [k, v] with k already lower-cased (optionxform) and v the   *)
(* raw text.                                                               *)
(***************************************************************************)
DefaultSect == "DEFAULT"

has_section(cfg, section) == \E i \in 1..Len(cfg) : cfg[i].name = section

SectionIndex(cfg, section) == CHOOSE i \in 1..Len(cfg) : cfg[i].name = section

\* add_section raises ValueError for the default section name
CanAddSection(section) == section # DefaultSect

add_section(cfg, section) == Append(cfg, [name |-> section, items |-> <<>>])

HasOption(items, key) == \E i \in 1..Len(items) : items[i].k = key

\* mutant of SetItem: the option is added without looking for the key
SetItemAppending(items, key, text) == Append(items, [k |-> key, v |-> text])

SetItem(items, key, text) ==
    IF HasOption(items, key)
    THEN [i \in 1..Len(items) |->
            IF items[i].k = key THEN [k |-> key, v |-> text] ELSE items[i]]
    ELSE Append(items, [k |-> key, v |-> text])

\* BasicInterpolation.before_set: a "%" that is not part of "%%" raises
\* ValueError (texts here carry no "%(name)s" reference)
RECURSIVE BadPercent(_)
BadPercent(cs) ==
    IF cs = <<>> THEN FALSE
    ELSE IF Head(cs) # "%" THEN BadPercent(Tail(cs))
    ELSE IF Len(cs) >= 2 /\ cs[2] = "%" THEN BadPercent(Tail(Tail(cs)))
    ELSE TRUE

\* BasicInterpolation.before_get: "%%" reads as "%"
RECURSIVE Interpolate(_)
Interpolate(cs) ==
    IF cs = <<>> THEN <<>>
    ELSE IF Head(cs) = "%" /\ Len(cs) >= 2 /\ cs[2] = "%"
         THEN <<"%">> \o Interpolate(Tail(Tail(cs)))
    ELSE <<Head(cs)>> \o Interpolate(Tail(cs))

\* config.set(section, key, text) on an existing section
config_set(cfg, section, key, text) ==
    [i \in 1..Len(cfg) |->
        IF cfg[i].name = section
        THEN [name |-> section, items |-> SetItem(cfg[i].items, Lower(key), text)]
        ELSE cfg[i]]

\* config.items(section): the options of a section with interpolated values
config_items(cfg, section) ==
    LET items == cfg[SectionIndex(cfg, section)].items
    IN  [i \in 1..Len(items) |-> [k |-> items[i].k, v |-> Interpolate(items[i].v)]]

(***************************************************************************)
(* The INI file: "[name]", then "key = value" per option, then an empty    *)
(* line, per section (ConfigParser.write), and its parse                   *)
(* (ConfigParser.read).                                                    *)
(***************************************************************************)
SecLine(name) == [t |-> "sec", s |-> name, k |-> <<>>, v |-> <<>>]
KvLine(key, text) == [t |-> "kv", s |-> "", k |-> key, v |-> text]
EndLine == [t |-> "end", s |-> "", k |-> <<>>, v |-> <<>>]

SectionLines(sec) ==
    <<SecLine(sec.name)>>
    \o [i \in 1..Len(sec.items) |-> KvLine(sec.items[i].k, sec.items[i].v)]
    \o <<EndLine>>

RECURSIVE config_write(_)
config_write(cfg) ==
    IF cfg = <<>> THEN <<>>
    ELSE SectionLines(Head(cfg)) \o config_write(Tail(cfg))

\* one line of ConfigParser._read applied to the sections read so far
ReadLine(cfg, line) ==
    CASE line.t = "sec" -> add_section(cfg, line.s)
      [] line.t = "kv" ->
            [i \in 1..Len(cfg) |->
                IF i = Len(cfg)
                THEN [name |-> cfg[i].name,
                      items |-> SetItem(cfg[i].items, Lower(line.k), Strip(line.v))]
                ELSE cfg[i]]
      [] OTHER -> cfg

\* the line raises DuplicateSectionError, MissingSectionHeaderError or
\* DuplicateOptionError
BadLine(cfg, line) ==
    CASE line.t = "sec" -> has_section(cfg, line.s)
      [] line.t = "kv" -> cfg = <<>> \/ HasOption(cfg[Len(cfg)].items, Lower(line.k))
      [] OTHER -> line.t # "end"

RECURSIVE ReadFrom(_, _)
ReadFrom(cfg, lines) ==
    IF lines = <<>> THEN cfg
    ELSE ReadFrom(ReadLine(cfg, Head(lines)), Tail(lines))

RECURSIVE ReadFails(_, _)
ReadFails(cfg, lines) ==
    IF lines = <<>> THEN FALSE
    ELSE BadLine(cfg, Head(lines)) \/ ReadFails(ReadLine(cfg, Head(lines)), Tail(lines))

config_read(lines) == ReadFrom(<<>>, lines)

\* IniFileReader._parse_config: section -> key -> coerced value, kept as the
\* sequence of sections with coerced values
_parse_config(cfg) ==
    [i \in 1..Len(cfg) |->
        [name |-> cfg[i].name,
         items |-> LET its == config_items(cfg, cfg[i].name)
                   IN  [j \in 1..Len(its) |->
                          [k |-> its[j].k, v |-> _convert_value(its[j].v)]]]]

(***************************************************************************)
(* JSON documents as BaseJsonFileHandler holds them.  A mapping is         *)
(* [t |-> "map", v |-> items], items a sequence of [k, v] in insertion     *)
(* order (a dict); the other values are leaves: "int", "str", "bool",      *)
(* "list", and "obj", a Python object json cannot serialize.               *)
(***************************************************************************)
JMap(items) == [t |-> "map", v |-> items]
JInt(n) == [t |-> "int", v |-> n]
JStr(str) == [t |-> "str", v |-> str]
JList(seq) == [t |-> "list", v |-> seq]
JObj == [t |-> "obj", v |-> 0]
EmptyDoc == JMap(<<>>)

MapHas(items, key) == \E i \in 1..Len(items) : items[i].k = key
MapGet(items, key) == items[CHOOSE i \in 1..Len(items) : items[i].k = key].v

\* mutant of MapSet: the mapping is left with the one entry
MapSetOnly(items, key, value) == << [k |-> key, v |-> value] >>

MapSet(items, key, value) ==
    IF MapHas(items, key)
    THEN [i \in 1..Len(items) |->
            IF items[i].k = key THEN [k |-> key, v |-> value] ELSE items[i]]
    ELSE Append(items, [k |-> key, v |-> value])

\* the lines of the JSON file: an object opens and closes, a leaf is one line
OpenLine(key) == [t |-> "open", s |-> key, k |-> <<>>, v |-> PyNone]
CloseLine == [t |-> "close", s |-> "", k |-> <<>>, v |-> PyNone]
LeafLine(key, value) == [t |-> "leaf", s |-> key, k |-> <<>>, v |-> value]

RECURSIVE DumpItems(_)
DumpItems(items) ==
    IF items = <<>> THEN <<>>
    ELSE LET it == Head(items)
         IN  (IF it.v.t = "map"
              THEN <<OpenLine(it.k)>> \o DumpItems(it.v.v) \o <<CloseLine>>
              ELSE <<LeafLine(it.k, it.v)>>)
             \o DumpItems(Tail(items))

DumpLines(doc) == <<OpenLine("")>> \o DumpItems(doc.v) \o <<CloseLine>>

\* json.dump raises TypeError at the first value it cannot serialize
FirstBad(lines) ==
    IF \E i \in 1..Len(lines) : lines[i].v.t = "obj"
    THEN CHOOSE i \in 1..Len(lines) :
            lines[i].v.t = "obj" /\ \A j \in 1..(i - 1) : lines[j].v.t # "obj"
    ELSE 0

DumpRaises(doc) == FirstBad(DumpLines(doc)) # 0

\* json.dump(doc, f, indent=4): what reaches the file, up to the failure
json_dump(doc) ==
    LET lines == DumpLines(doc)
        bad == FirstBad(lines)
    IN  IF bad = 0 THEN lines ELSE SubSeq(lines, 1, bad - 1)

\* json.load: the members of an object up to its closing line
RECURSIVE ParseItems(_)
ParseItems(lines) ==
    IF lines = <<>> THEN [ok |-> FALSE, items |-> <<>>, rest |-> <<>>]
    ELSE LET first == Head(lines)
         IN  CASE first.t = "close" ->
                    [ok |-> TRUE, items |-> <<>>, rest |-> Tail(lines)]
               [] first.t = "leaf" ->
                    LET r == ParseItems(Tail(lines))
                    IN  [ok |-> r.ok,
                         items |-> IF MapHas(r.items, first.s) THEN r.items
                                   ELSE <<[k |-> first.s, v |-> first.v]>> \o r.items,
                         rest |-> r.rest]
               [] first.t = "open" ->
                    LET sub == ParseItems(Tail(lines))
                        r == IF sub.ok THEN ParseItems(sub.rest) ELSE sub
                    IN  [ok |-> sub.ok /\ r.ok,
                         items |-> IF MapHas(r.items, first.s) THEN r.items
                                   ELSE <<[k |-> first.s, v |-> JMap(sub.items)]>> \o r.items,
                         rest |-> r.rest]
               [] OTHER -> [ok |-> FALSE, items |-> <<>>, rest |-> <<>>]

\* json.load raises JSONDecodeError: an empty or incomplete file
LoadFails(lines) ==
    \/ lines = <<>>
    \/ Head(lines).t # "open"
    \/ ~ParseItems(Tail(lines)).ok
    \/ ParseItems(Tail(lines)).rest # <<>>

json_load(lines) == JMap(ParseItems(Tail(lines)).items)

\* isinstance(value, expected_type); bool is a subclass of int
IsInstance(value, expected_type) ==
    value.t = expected_type \/ (expected_type = "int" /\ value.t = "bool")

\* mutant of TypeFails: the type is checked whatever validate says
TypeFailsUnasked(value, validate, expected_type) ==
    expected_type # "None" /\ ~IsInstance(value, expected_type)

\* the type check of update_data fails
TypeFails(value, validate, expected_type) ==
    validate /\ expected_type # "None" /\ ~IsInstance(value, expected_type)

\* update_data below one mapping node: the loop over keys[:-1] creates the
\* missing mappings as it goes and stops where it raises
\* mutant of UpdatePath: an intermediate value that is not a mapping is
\* replaced by an empty mapping
RECURSIVE UpdatePathOverwriting(_, _, _, _)
UpdatePathOverwriting(node, keys, value, typeFails) ==
    IF Len(keys) = 1
    THEN IF typeFails THEN node ELSE JMap(MapSet(node.v, keys[1], value))
    ELSE LET k == Head(keys)
             child == IF MapHas(node.v, k) /\ MapGet(node.v, k).t = "map"
                      THEN MapGet(node.v, k) ELSE EmptyDoc
         IN  JMap(MapSet(node.v, k,
                         UpdatePathOverwriting(child, Tail(keys), value, typeFails)))

RECURSIVE UpdatePath(_, _, _, _)
UpdatePath(node, keys, value, typeFails) ==
    IF Len(keys) = 1
    THEN IF typeFails THEN node ELSE JMap(MapSet(node.v, keys[1], value))
    ELSE LET k == Head(keys)
             child == IF MapHas(node.v, k) THEN MapGet(node.v, k) ELSE EmptyDoc
         IN  IF child.t # "map" THEN node
             ELSE JMap(MapSet(node.v, k, UpdatePath(child, Tail(keys), value, typeFails)))

\* an intermediate segment of the path holds a value that is not a mapping
RECURSIVE PathConflict(_, _)
PathConflict(node, keys) ==
    IF Len(keys) = 1 THEN FALSE
    ELSE LET k == Head(keys)
         IN  IF ~MapHas(node.v, k) THEN FALSE
             ELSE IF MapGet(node.v, k).t # "map" THEN TRUE
             ELSE PathConflict(MapGet(node.v, k), Tail(keys))

\* "if not key": the dotted key is the empty string
EmptyKey(keys) == keys = <<"">>

UpdateDataRaises(doc, keys, value, validate, expected_type) ==
    \/ EmptyKey(keys)
    \/ PathConflict(doc, keys)
    \/ TypeFails(value, validate, expected_type)

\* self.data after update_data(key, value, validate, expected_type), keys
\* being key.split(".")
UpdateDataDoc(doc, keys, value, validate, expected_type) ==
    IF EmptyKey(keys) THEN doc
    ELSE UpdatePath(doc, keys, value, TypeFails(value, validate, expected_type))

(***************************************************************************)
(* State.  Two command handlers work on one data file, each through its    *)
(* own store instance; the file, the temporary files and the lock file are *)
(* what they share.                                                        *)
(***************************************************************************)
VARIABLES
    storeKind,    \* "ini": IniFileReader, "json": BaseJsonFileHandler
    platform,     \* os.name: "posix" or "nt"
    readable,     \* whether open() for reading succeeds on the data file
    opsLimit,     \* how many operations each handler calls at most
    dirExists,    \* self.file_path.parent exists
    fileExists,   \* self.file_path.exists()
    file,         \* the lines of the data file
    temp,         \* per handler: the NamedTemporaryFile of its save()
    lock,         \* holder of "<data file>.lock", or NoHolder
    pc,           \* per handler: where it is
    config,       \* per handler: self.config of its IniFileReader
    data,         \* per handler: self.data of its BaseJsonFileHandler
    fd,           \* per handler: the data file it has open for writing
    result,       \* per handler: how its save() ended
    ret,          \* per handler: what its last operation returned
    waited,       \* per handler: time spent polling for the lock
    ops,          \* per handler: operations done on the store so far
    call,         \* per handler: the arguments of the call it is in
    saved,        \* the handlers whose save() returned, in order
    locks,        \* per store file of a command: holder of its lock file
    plan          \* per handler: the stores its command has still to save

vars == <<storeKind, platform, readable, opsLimit, dirExists, fileExists, file, temp, lock, pc, config, data,
          fd, result, ret, waited, ops, call, saved, locks, plan>>

\* the stores a command saves: the work records and the user records
StoreFiles == {"work", "user"}

\* no command that saves two stores is running
NoCommand ==
    /\ locks = [f \in StoreFiles |-> NoHolder]
    /\ plan = [p \in Handlers |-> <<>>]

env == <<storeKind, platform, readable, opsLimit, locks, plan>>
disk == <<dirExists, fileExists, file>>
memory == <<config, data>>
outcome == <<result, saved, call>>

NoCall == [op |-> "none", section |-> "", key |-> <<>>, value |-> PyNone]

\* a temporary file: whether save() has made one, whether it is in the
\* directory, whether the handler has it open, whether os.fsync has been
\* called on it, and its lines
NoTemp == [made |-> FALSE, exists |-> FALSE, open |-> FALSE, synced |-> FALSE,
           lines |-> <<>>]

\* positions inside save() at which the handler holds the lock
Other(p) == CHOOSE q \in Handlers : q # p

\* FileLock(self.lock_path, timeout=5) of UnifiedCreelManager._save_data
LockTimeout == 5

LockedPcs == {"create", "write", "fsync", "rename", "except", "finally_ok", "finally_err"}
SavePcs == {"acquire"} \cup LockedPcs

\* data files the handlers may find
InitialConfigs ==
    { <<[name |-> "u1", items |-> << [k |-> <<"k">>, v |-> <<"0">>] >>]>> }

InitialDocs ==
    { JMap(<< [k |-> "u1", v |-> JMap(<< [k |-> "k", v |-> JInt(0)] >>)] >>) }

InitialFiles(kind) ==
    IF kind = "ini" THEN {config_write(c) : c \in InitialConfigs}
    ELSE {DumpLines(d) : d \in InitialDocs}

Init ==
    /\ storeKind \in {"ini", "json"}
    /\ platform \in {"posix", "nt"}
    /\ readable = TRUE
    /\ opsLimit = MaxOps
    /\ dirExists = TRUE
    /\ \/ fileExists = FALSE /\ file = <<>>
       \/ fileExists = TRUE /\ file \in InitialFiles(storeKind)
    /\ temp = [p \in Handlers |-> NoTemp]
    /\ lock = NoHolder
    /\ pc = [p \in Handlers |-> "new"]
    /\ config = [p \in Handlers |-> <<>>]
    /\ data = [p \in Handlers |-> EmptyDoc]
    /\ fd = [p \in Handlers |-> "none"]
    /\ result = [p \in Handlers |-> "none"]
    /\ ret = [p \in Handlers |-> PyNone]
    /\ waited = [p \in Handlers |-> 0]
    /\ ops = [p \in Handlers |-> 0]
    /\ call = [p \in Handlers |-> NoCall]
    /\ saved = <<>>
    /\ NoCommand

(***************************************************************************)
(* IniFileReader: construction and the in-memory operations.               *)
(***************************************************************************)
\* _load_config: the parsed file, an empty configuration if there is none
\* config.read skips a file it cannot open, without an error
_load_config == IF fileExists /\ readable THEN config_read(file) ELSE <<>>

\* __init__: raises RuntimeError when the file does not parse
IniConstruct(p) ==
    /\ storeKind = "ini"
    /\ pc[p] = "new"
    /\ IF fileExists /\ readable /\ ReadFails(<<>>, file)
       THEN pc' = [pc EXCEPT ![p] = "load_error"] /\ UNCHANGED config
       ELSE pc' = [pc EXCEPT ![p] = "ready"]
            /\ config' = [config EXCEPT ![p] = _load_config]
    /\ UNCHANGED <<env, disk, temp, lock, data, fd, outcome, ret, waited, ops>>

\* the dict read_section returns for an existing section
SectionDict(cfg, section) == _parse_config(cfg)[SectionIndex(cfg, section)].items

DictRet(items) == [t |-> "dict", v |-> items]
RaiseRet(name) == [t |-> "raise", v |-> name]

InOp(p, kind) == storeKind = kind /\ pc[p] = "ready" /\ ops[p] < opsLimit

\* the call the handler has made: the operation and its arguments
StoreCall(op, section, key, value) ==
    [op |-> op, section |-> section, key |-> key, value |-> value]

OpFrame(p, c) ==
    /\ ops' = [ops EXCEPT ![p] = @ + 1]
    /\ call' = [call EXCEPT ![p] = c]
    /\ UNCHANGED <<env, disk, temp, lock, pc, fd, result, saved, waited>>

\* self.config after read_section
ReadSectionConfig(cfg, section, create_if_not_exists) ==
    IF ~has_section(cfg, section) /\ create_if_not_exists /\ CanAddSection(section)
    THEN add_section(cfg, section)
    ELSE cfg

\* what read_section returns or raises
ReadSectionResult(cfg, section, create_if_not_exists) ==
    IF has_section(cfg, section) THEN DictRet(SectionDict(cfg, section))
    ELSE IF create_if_not_exists /\ ~CanAddSection(section) THEN RaiseRet("ValueError")
    ELSE DictRet(<<>>)

read_section(p, section, create_if_not_exists) ==
    /\ InOp(p, "ini")
    /\ config' = [config EXCEPT ![p] = ReadSectionConfig(@, section, create_if_not_exists)]
    /\ ret' = [ret EXCEPT ![p] = ReadSectionResult(config[p], section, create_if_not_exists)]
    /\ UNCHANGED data
    /\ OpFrame(p, StoreCall("read_section", section, <<>>, PyBool(create_if_not_exists)))

\* the value read_key returns or the exception it raises
ReadKeyResult(cfg, section, key, default) ==
    LET section_data == ReadSectionResult(cfg, section, FALSE).v
    IN  IF ~HasOption(section_data, key)
        THEN IF default # PyNone THEN default ELSE RaiseRet("ValueError")
        ELSE section_data[CHOOSE i \in 1..Len(section_data) : section_data[i].k = key].v

\* mutant of read_key: the section is read with create_if_not_exists=True
read_key_creating(p, section, key, default) ==
    /\ InOp(p, "ini")
    /\ ret' = [ret EXCEPT ![p] = ReadKeyResult(config[p], section, key, default)]
    /\ config' = [config EXCEPT ![p] = ReadSectionConfig(@, section, TRUE)]
    /\ UNCHANGED data
    /\ OpFrame(p, StoreCall("read_key", section, key, default))

read_key(p, section, key, default) ==
    /\ InOp(p, "ini")
    /\ ret' = [ret EXCEPT ![p] = ReadKeyResult(config[p], section, key, default)]
    /\ UNCHANGED memory
    /\ OpFrame(p, StoreCall("read_key", section, key, default))

read_all(p) ==
    /\ InOp(p, "ini")
    /\ ret' = [ret EXCEPT ![p] = [t |-> "all", v |-> _parse_config(config[p])]]
    /\ UNCHANGED memory
    /\ OpFrame(p, StoreCall("read_all", "", <<>>, PyNone))

\* update_key raises ValueError: add_section on the default section name,
\* or config.set on a text with a bare "%"
UpdateKeyRaises(cfg, section, value) ==
    \/ ~has_section(cfg, section) /\ ~CanAddSection(section)
    \/ BadPercent(_convert_to_ini_string(value))

\* self.config after update_key; when config.set raises, the section has
\* already been added
UpdateKeyConfig(cfg, section, key, value) ==
    LET withSect == IF has_section(cfg, section) THEN cfg ELSE add_section(cfg, section)
    IN  IF ~has_section(cfg, section) /\ ~CanAddSection(section) THEN cfg
        ELSE IF BadPercent(_convert_to_ini_string(value)) THEN withSect
        ELSE config_set(withSect, section, key, _convert_to_ini_string(value))

\* mutant of update_key: the change is written through to the data file
update_key_flushing(p, section, key, value) ==
    /\ InOp(p, "ini")
    /\ config' = [config EXCEPT ![p] = UpdateKeyConfig(@, section, key, value)]
    /\ ret' = [ret EXCEPT ![p] =
                 IF UpdateKeyRaises(config[p], section, value)
                 THEN RaiseRet("ValueError") ELSE PyNone]
    /\ fileExists' = TRUE
    /\ file' = config_write(UpdateKeyConfig(config[p], section, key, value))
    /\ UNCHANGED dirExists
    /\ ops' = [ops EXCEPT ![p] = @ + 1]
    /\ call' = [call EXCEPT ![p] = StoreCall("update_key", section, key, value)]
    /\ UNCHANGED <<env, temp, lock, pc, data, fd, result, saved, waited>>

update_key(p, section, key, value) ==
    /\ InOp(p, "ini")
    /\ config' = [config EXCEPT ![p] = UpdateKeyConfig(@, section, key, value)]
    /\ ret' = [ret EXCEPT ![p] =
                 IF UpdateKeyRaises(config[p], section, value)
                 THEN RaiseRet("ValueError") ELSE PyNone]
    /\ UNCHANGED data
    /\ OpFrame(p, StoreCall("update_key", section, key, value))

\* self.config[section].update(temp_dict): one config.set per entry, in
\* order, up to the first that raises
RECURSIVE UpdateMany(_, _, _)
UpdateMany(cfg, section, pairs) ==
    IF pairs = <<>> \/ BadPercent(_convert_to_ini_string(Head(pairs).v)) THEN cfg
    ELSE UpdateMany(config_set(cfg, section, Head(pairs).k,
                               _convert_to_ini_string(Head(pairs).v)),
                    section, Tail(pairs))

UpdateSectionRaises(cfg, section, pairs) ==
    \/ ~has_section(cfg, section) /\ ~CanAddSection(section)
    \/ \E i \in 1..Len(pairs) : BadPercent(_convert_to_ini_string(pairs[i].v))

\* mutant of UpdateSectionConfig: the section is replaced by the given
\* fields, those not mentioned are deleted
UpdateSectionConfigReplacing(cfg, section, pairs) ==
    IF ~has_section(cfg, section) /\ ~CanAddSection(section) THEN cfg
    ELSE UpdateMany([i \in 1..Len(cfg) |->
                        IF cfg[i].name = section
                        THEN [name |-> section, items |-> <<>>] ELSE cfg[i]]
                    \o (IF has_section(cfg, section) THEN <<>>
                        ELSE <<[name |-> section, items |-> <<>>]>>),
                    section, pairs)

UpdateSectionConfig(cfg, section, pairs) ==
    IF ~has_section(cfg, section) /\ ~CanAddSection(section) THEN cfg
    ELSE UpdateMany(IF has_section(cfg, section) THEN cfg ELSE add_section(cfg, section),
                    section, pairs)

update_section_keys(p, section, pairs) ==
    /\ InOp(p, "ini")
    /\ config' = [config EXCEPT ![p] = UpdateSectionConfig(@, section, pairs)]
    /\ ret' = [ret EXCEPT ![p] =
                 IF UpdateSectionRaises(config[p], section, pairs)
                 THEN RaiseRet("ValueError") ELSE PyNone]
    /\ UNCHANGED data
    /\ OpFrame(p, StoreCall("update_section_keys", section, <<>>, DictRet(pairs)))

\* the handler returns without calling save(): the store is dropped
Drop(p) ==
    /\ pc[p] = "ready"
    /\ ops[p] > 0
    /\ pc' = [pc EXCEPT ![p] = "dropped"]
    /\ UNCHANGED <<env, disk, temp, lock, memory, fd, outcome, ret, waited, ops>>

(***************************************************************************)
(* BaseJsonFileHandler: construction and update_data.                      *)
(***************************************************************************)
\* _load_data, the file exists: json.load of it, RuntimeError if that fails
JsonLoad(p) ==
    /\ storeKind = "json"
    /\ pc[p] = "new"
    /\ fileExists
    /\ IF ~readable \/ LoadFails(file)
       THEN pc' = [pc EXCEPT ![p] = "load_error"] /\ UNCHANGED data
       ELSE pc' = [pc EXCEPT ![p] = "ready"]
            /\ data' = [data EXCEPT ![p] = json_load(file)]
    /\ UNCHANGED <<env, disk, temp, lock, config, fd, outcome, ret, waited, ops>>

\* _load_data: "if not self.file_path.exists()" found no file
JsonMissing(p) ==
    /\ storeKind = "json"
    /\ pc[p] = "new"
    /\ ~fileExists
    /\ pc' = [pc EXCEPT ![p] = "mk_open"]
    /\ UNCHANGED <<env, disk, temp, lock, memory, fd, outcome, ret, waited, ops>>

\* _load_data: mkdir and open(self.file_path, "w"), which empties whatever
\* file is at the path by now
JsonCreateOpen(p) ==
    /\ pc[p] = "mk_open"
    /\ dirExists' = TRUE
    /\ fileExists' = TRUE
    /\ file' = <<>>
    /\ fd' = [fd EXCEPT ![p] = "open"]
    /\ pc' = [pc EXCEPT ![p] = "mk_dump"]
    /\ UNCHANGED <<env, temp, lock, memory, outcome, ret, waited, ops>>

\* _load_data: json.dump({}, f) and close; the handle writes to the file it
\* opened, which is no longer the data file once a save() has replaced it
\* mutant of JsonCreateDump: the new file is closed with nothing written
JsonCreateNoDump(p) ==
    /\ pc[p] = "mk_dump"
    /\ fd' = [fd EXCEPT ![p] = "none"]
    /\ data' = [data EXCEPT ![p] = EmptyDoc]
    /\ pc' = [pc EXCEPT ![p] = "ready"]
    /\ UNCHANGED <<env, disk, temp, lock, config, outcome, ret, waited, ops>>

JsonCreateDump(p) ==
    /\ pc[p] = "mk_dump"
    /\ file' = IF fd[p] = "open" THEN json_dump(EmptyDoc) ELSE file
    /\ fd' = [fd EXCEPT ![p] = "none"]
    /\ data' = [data EXCEPT ![p] = EmptyDoc]
    /\ pc' = [pc EXCEPT ![p] = "ready"]
    /\ UNCHANGED <<env, dirExists, fileExists, temp, lock, config, outcome, ret, waited, ops>>

\* the call of update_data and its arguments
DataCall(keys, value, validate, expected_type) ==
    [op |-> "update_data", section |-> "", key |-> keys, value |-> value,
     validate |-> validate, expected_type |-> expected_type]

update_data(p, keys, value, validate, expected_type) ==
    /\ InOp(p, "json")
    /\ data' = [data EXCEPT ![p] = UpdateDataDoc(@, keys, value, validate, expected_type)]
    /\ ret' = [ret EXCEPT ![p] =
                 IF UpdateDataRaises(data[p], keys, value, validate, expected_type)
                 THEN RaiseRet("ValueError") ELSE PyNone]
    /\ UNCHANGED config
    /\ OpFrame(p, DataCall(keys, value, validate, expected_type))

(***************************************************************************)
(* save(): IniFileReader.save and BaseJsonFileHandler.save.                *)
(***************************************************************************)
\* the lines of the in-memory table of handler p
TableLines(p) == IF storeKind = "ini" THEN config_write(config[p]) ELSE DumpLines(data[p])

\* the sections of cfg laid over those of base, option by option
RECURSIVE MergeConfig(_, _)
MergeConfig(base, cfg) ==
    IF cfg = <<>> THEN base
    ELSE MergeConfig(
            UpdateMany(IF has_section(base, Head(cfg).name) THEN base
                       ELSE add_section(base, Head(cfg).name),
                       Head(cfg).name,
                       [i \in 1..Len(Head(cfg).items) |->
                          [k |-> Head(cfg).items[i].k, v |-> PyStr(Head(cfg).items[i].v)]]),
            Tail(cfg))

\* mutant of Serialized: save() re-reads the file and writes the merge of
\* the file and the table (INI), keeping what others have saved
SerializedMerged(p) ==
    IF storeKind = "ini"
    THEN config_write(MergeConfig(IF fileExists THEN config_read(file) ELSE <<>>, config[p]))
    ELSE json_dump(data[p])

\* mutant of Serialized: save() writes the file as it is now with only the
\* section the saver has updated taken from the table (INI)
SerializedChangedOnly(p) ==
    IF storeKind = "ini"
    THEN config_write(MergeConfig(IF fileExists THEN config_read(file) ELSE <<>>,
                                  SelectSeq(config[p], LAMBDA sec : sec.name = call[p].section)))
    ELSE json_dump(data[p])

\* what save() writes: the whole in-memory table
Serialized(p) == IF storeKind = "ini" THEN config_write(config[p]) ELSE json_dump(data[p])

\* json.dump raises in the middle of the write
SerializeRaises(p) == storeKind = "json" /\ DumpRaises(data[p])

\* lock = FileLock(...); with lock: the handler starts polling for the lock
SaveCall(p) ==
    /\ pc[p] = "ready"
    /\ pc' = [pc EXCEPT ![p] = "acquire"]
    /\ UNCHANGED <<env, disk, temp, lock, memory, fd, outcome, ret, waited, ops>>

\* mutant of AcquireLock: the lock is taken without looking at its holder
AcquireLockUnchecked(p) ==
    /\ pc[p] = "acquire"
    /\ lock' = p
    /\ pc' = [pc EXCEPT ![p] = "create"]
    /\ waited' = [waited EXCEPT ![p] = 0]
    /\ UNCHANGED <<env, disk, temp, memory, fd, outcome, ret, ops>>

\* FileLock.acquire succeeds: nobody holds the lock file
AcquireLock(p) ==
    /\ pc[p] = "acquire"
    /\ lock = NoHolder
    /\ lock' = p
    /\ pc' = [pc EXCEPT ![p] = "create"]
    /\ waited' = [waited EXCEPT ![p] = 0]
    /\ UNCHANGED <<env, disk, temp, memory, fd, outcome, ret, ops>>

\* FileLock.acquire polls again: the lock is held, time passes
WaitLock(p) ==
    /\ pc[p] = "acquire"
    /\ lock # NoHolder
    /\ waited[p] < MaxWait
    /\ waited' = [waited EXCEPT ![p] = @ + 1]
    /\ UNCHANGED <<env, disk, temp, lock, pc, memory, fd, outcome, ret, ops>>

\* tempfile.NamedTemporaryFile(dir=parent, delete=False)
CreateTemp(p) ==
    /\ pc[p] = "create"
    /\ dirExists
    /\ temp' = [temp EXCEPT ![p] =
                  [made |-> TRUE, exists |-> TRUE, open |-> TRUE, synced |-> FALSE,
                   lines |-> <<>>]]
    /\ pc' = [pc EXCEPT ![p] = "write"]
    /\ UNCHANGED <<env, disk, lock, memory, fd, outcome, ret, waited, ops>>

\* NamedTemporaryFile raises (no directory, no permission): temp_file stays unset
CreateTempFail(p) ==
    /\ pc[p] = "create"
    /\ pc' = [pc EXCEPT ![p] = "except"]
    /\ UNCHANGED <<env, disk, temp, lock, memory, fd, outcome, ret, waited, ops>>

\* the position after the content is written: IniFileReader flushes and
\* fsyncs, BaseJsonFileHandler leaves the "with temp_file" block, which
\* closes the file, and renames unless json.dump has raised
AfterWrite(p) ==
    IF storeKind = "ini" THEN "fsync"
    ELSE IF SerializeRaises(p) THEN "except"
    ELSE "rename"

\* mutant of WriteTemp: the lines are written to the data file itself
WriteInPlace(p) ==
    /\ pc[p] = "write"
    /\ LET all == Serialized(p)
           n == Len(temp[p].lines)
       IN  IF n < Len(all)
           THEN /\ temp' = [temp EXCEPT ![p].lines = Append(@, all[n + 1])]
                /\ file' = Append(temp[p].lines, all[n + 1])
                /\ pc' = pc
           ELSE /\ temp' = [temp EXCEPT ![p].open = (storeKind = "ini")]
                /\ file' = file
                /\ pc' = [pc EXCEPT ![p] = AfterWrite(p)]
    /\ UNCHANGED <<env, dirExists, fileExists, lock, memory, fd, outcome, ret, waited, ops>>

\* self.config.write(temp_file) / json.dump(self.data, temp_file): the next
\* line of the serialization reaches the temporary file
WriteTemp(p) ==
    /\ pc[p] = "write"
    /\ LET all == Serialized(p)
           n == Len(temp[p].lines)
       IN  IF n < Len(all)
           THEN /\ temp' = [temp EXCEPT ![p].lines = Append(@, all[n + 1])]
                /\ pc' = pc
           ELSE /\ temp' = [temp EXCEPT ![p].open = (storeKind = "ini")]
                /\ pc' = [pc EXCEPT ![p] = AfterWrite(p)]
    /\ UNCHANGED <<env, disk, lock, memory, fd, outcome, ret, waited, ops>>

\* temp_file.flush(); os.fsync(temp_file.fileno())
FsyncTemp(p) ==
    /\ pc[p] = "fsync"
    /\ temp' = [temp EXCEPT ![p].synced = TRUE]
    /\ pc' = [pc EXCEPT ![p] = "rename"]
    /\ UNCHANGED <<env, disk, lock, memory, fd, outcome, ret, waited, ops>>

\* a write, flush or fsync raises (disk full, I/O error); the "with
\* temp_file" block of BaseJsonFileHandler closes the file on the way out
WriteFail(p) ==
    /\ pc[p] \in {"write", "fsync"}
    /\ temp' = [temp EXCEPT ![p].open = (storeKind = "ini")]
    /\ pc' = [pc EXCEPT ![p] = "except"]
    /\ UNCHANGED <<env, disk, lock, memory, fd, outcome, ret, waited, ops>>

\* on "nt" os.replace fails while some handle is open on the target
CanReplace == ~(platform = "nt" /\ \E q \in Handlers : fd[q] = "open")

\* the temporary file at os.replace: on "nt" IniFileReader has closed it
TempAtReplace(t) == [t EXCEPT !.open = (@ /\ platform # "nt")]

\* os.replace(temp_file.name, self.file_path): the temporary file becomes
\* the data file; handles open on the old data file no longer reach it
ReplaceFile(p) ==
    /\ pc[p] = "rename"
    /\ CanReplace
    /\ file' = temp[p].lines
    /\ fileExists' = TRUE
    /\ UNCHANGED dirExists
    /\ fd' = [q \in Handlers |-> IF fd[q] = "open" THEN "stale" ELSE fd[q]]
    /\ temp' = [temp EXCEPT ![p] =
                  [TempAtReplace(@) EXCEPT !.exists = FALSE, !.lines = <<>>]]
    /\ pc' = [pc EXCEPT ![p] = "finally_ok"]
    /\ UNCHANGED <<env, lock, memory, outcome, ret, waited, ops>>

\* os.replace raises (the target is open elsewhere on "nt", no permission)
ReplaceFail(p) ==
    /\ pc[p] = "rename"
    /\ temp' = [temp EXCEPT ![p] = TempAtReplace(@)]
    /\ pc' = [pc EXCEPT ![p] = "except"]
    /\ UNCHANGED <<env, disk, lock, memory, fd, outcome, ret, waited, ops>>

\* os.unlink(temp_file.name) succeeds: on "nt" a file that is still open
\* cannot be deleted, and the handler of that error only prints a warning
UnlinkWorks(t) == ~(platform = "nt" /\ t.open)

\* the temporary file after the "except Exception" block of save()
CleanedUp(t) ==
    IF t.made /\ t.exists /\ UnlinkWorks(t)
    THEN [t EXCEPT !.exists = FALSE, !.lines = <<>>]
    ELSE t

\* except Exception: delete the temporary file if there is one, then raise
CleanupTemp(p) ==
    /\ pc[p] = "except"
    /\ temp' = [temp EXCEPT ![p] = CleanedUp(@)]
    /\ pc' = [pc EXCEPT ![p] = "finally_err"]
    /\ UNCHANGED <<env, disk, lock, memory, fd, outcome, ret, waited, ops>>

\* the lock once handler p has left its "with lock" block
Released(p) == IF lock = p THEN NoHolder ELSE lock

\* mutant of ExitSave: the lock stays held when save() raises
ExitSaveKeepsLock(p) ==
    /\ pc[p] \in {"finally_ok", "finally_err"}
    /\ temp' = [temp EXCEPT ![p].open = FALSE]
    /\ lock' = IF pc[p] = "finally_ok" THEN Released(p) ELSE lock
    /\ pc' = [pc EXCEPT ![p] = IF pc[p] = "finally_ok" THEN "done" ELSE "failed"]
    /\ result' = [result EXCEPT ![p] = IF pc[p] = "finally_ok" THEN "ok" ELSE "error"]
    /\ saved' = IF pc[p] = "finally_ok" THEN Append(saved, p) ELSE saved
    /\ UNCHANGED <<env, disk, memory, fd, ret, waited, ops, call>>

\* finally: close the temporary file; the "with lock" block is left, save()
\* returns or raises RuntimeError
ExitSave(p) ==
    /\ pc[p] \in {"finally_ok", "finally_err"}
    /\ temp' = [temp EXCEPT ![p].open = FALSE]
    /\ lock' = Released(p)
    /\ pc' = [pc EXCEPT ![p] = IF pc[p] = "finally_ok" THEN "done" ELSE "failed"]
    /\ result' = [result EXCEPT ![p] = IF pc[p] = "finally_ok" THEN "ok" ELSE "error"]
    /\ saved' = IF pc[p] = "finally_ok" THEN Append(saved, p) ELSE saved
    /\ UNCHANGED <<env, disk, memory, fd, ret, waited, ops, call>>

\* the process of the handler is killed inside save(): the operating
\* system closes its files, which frees the lock; what it has written stays
Crash(p) ==
    /\ pc[p] \in SavePcs
    /\ pc' = [pc EXCEPT ![p] = "crashed"]
    /\ lock' = Released(p)
    /\ waited' = [waited EXCEPT ![p] = 0]
    /\ temp' = [temp EXCEPT ![p].open = FALSE]
    /\ result' = [result EXCEPT ![p] = "crashed"]
    /\ UNCHANGED <<env, disk, memory, fd, saved, ret, ops, call>>

(***************************************************************************)
(* Spec: two handlers construct a store on the data file, update it and    *)
(* save, in any interleaving.                                              *)
(***************************************************************************)
\* inputs of the handlers: each writes a number of its own, so that the
\* tables of the two differ
Mark(p) == IF p = "h1" THEN 1 ELSE 2
SpecKeys == { <<"k">> }
SpecValues(p) == { PyInt(Mark(p)) }
SpecPaths == { <<"u1", "k">>, <<"u2", "k">> }
SpecDocValues(p) == { JInt(Mark(p)), JObj }

SaveStep ==
    \/ \E p \in Handlers : SaveCall(p)
    \/ \E p \in Handlers : AcquireLock(p)
    \/ \E p \in Handlers : WaitLock(p)
    \/ \E p \in Handlers : CreateTemp(p)
    \/ \E p \in Handlers : CreateTempFail(p)
    \/ \E p \in Handlers : WriteTemp(p)
    \/ \E p \in Handlers : FsyncTemp(p)
    \/ \E p \in Handlers : WriteFail(p)
    \/ \E p \in Handlers : ReplaceFile(p)
    \/ \E p \in Handlers : ReplaceFail(p)
    \/ \E p \in Handlers : CleanupTemp(p)
    \/ \E p \in Handlers : ExitSave(p)
    \/ \E p \in Handlers : Crash(p)

Next ==
    \/ \E p \in Handlers : IniConstruct(p)
    \/ \E p \in Handlers : \E s \in Sections, k \in SpecKeys, v \in SpecValues(p) :
            update_key(p, s, k, v)
    \/ \E p \in Handlers : JsonLoad(p)
    \/ \E p \in Handlers : JsonMissing(p)
    \/ \E p \in Handlers : JsonCreateOpen(p)
    \/ \E p \in Handlers : JsonCreateDump(p)
    \/ \E p \in Handlers : \E ks \in SpecPaths, v \in SpecDocValues(p) :
            update_data(p, ks, v, TRUE, "None")
    \/ SaveStep

Spec == Init /\ [][Next]_vars

(***************************************************************************)
(* Properties of save().                                                   *)
(***************************************************************************)
\* the handler takes a step of its save() (a crash inside it included)
InSaveStep(p) ==
    /\ pc[p] \in SavePcs
    /\ pc'[p] # pc[p] \/ temp'[p] # temp[p] \/ waited'[p] # waited[p]

\* C1: the lock-protected sections of two save() calls on the same data file
\* never overlap, and once both calls have returned the file is the complete
\* serialization of the table of one of the two callers.
C1_SavesExclusive ==
    /\ Cardinality({p \in Handlers : pc[p] \in LockedPcs}) <= 1
    /\ (\A p \in Handlers : pc[p] = "done") =>
            fileExists /\ \E p \in Handlers : file = TableLines(p)

\* both saves have returned, the tables differ, the file is one of them
C1_Witness ==
    /\ \A p \in Handlers : pc[p] = "done"
    /\ TableLines("h1") # TableLines("h2")
    /\ file \in {TableLines("h1"), TableLines("h2")}

\* C2: every step of a save(), and a crash at any step of it, leaves the data
\* file as it was or makes it the complete serialization of the saver's table.
C2_SaveAtomic ==
    [][\A p \in Handlers :
          InSaveStep(p) =>
              \/ fileExists' = fileExists /\ file' = file
              \/ fileExists' /\ file' = TableLines(p)]_vars

\* a handler has crashed with its temporary file fully written and not yet
\* renamed: the data file still has the content it had before the save
C2_Witness ==
    \E p \in Handlers :
        /\ pc[p] = "crashed"
        /\ temp[p].exists
        /\ temp[p].lines = TableLines(p)
        /\ fileExists
        /\ file # TableLines(p)
        /\ file \in InitialFiles(storeKind)

\* C3: after two handlers have each saved, the file is exactly the table of
\* the handler whose save() returned second; the first handler's table is
\* gone, and both calls returned without an error.
C3_SecondSaveWins ==
    Len(saved) = 2 =>
        /\ fileExists
        /\ file = TableLines(saved[2])
        /\ \A p \in Handlers : result[p] = "ok"

\* both handlers loaded the file before either saved and updated the same
\* section; the update of the first saver is not in the file
C3_Witness ==
    /\ Len(saved) = 2
    /\ storeKind = "ini"
    /\ \A p \in Handlers :
          /\ has_section(config[p], "u1")
          /\ ReadKeyResult(config[p], "u1", <<"k">>, PyNone) = PyInt(Mark(p))
          /\ ~has_section(config[p], "u2")
    /\ ReadKeyResult(config_read(file), "u1", <<"k">>, PyNone) = PyInt(Mark(saved[2]))

\* C4: a save() that waits for the lock gives up with a lock-timeout error
\* once the timeout has passed: no handler is found polling for the lock
\* after more than the timeout.
C4_WaitIsBounded ==
    \A p \in Handlers : pc[p] = "acquire" => waited[p] <= LockTimeout

\* C5: whenever save() has returned or raised, and at any position outside
\* its "with lock" block, the handler does not hold the lock.
C5_LockReleased ==
    \A p \in Handlers : pc[p] \notin LockedPcs => lock # p

\* save() of one handler has raised and the other handler holds the lock
C5_Witness ==
    \E p \in Handlers : pc[p] = "failed" /\ result[p] = "error" /\ lock = Other(p)

\* C6: when save() has raised, no temporary file of it remains.
C6_NoTempAfterFailure ==
    \A p \in Handlers : pc[p] = "failed" => ~temp[p].exists

(***************************************************************************)
(* UnifiedCreelManager: the catch log, one JSON document                   *)
(* {account: {"fish_records": [{"fish_name", "weights"}, ...]}}.  Every     *)
(* operation loads the file, and add_fish_weight writes it back.           *)
(***************************************************************************)
Accounts == {"u1", "u2"}
FishNames == {"carp"}

FishRecord(fish_name, weights) == [fish_name |-> fish_name, weights |-> weights]
UserData(records) == JMap(<< [k |-> "fish_records", v |-> JList(records)] >>)

\* "if not user_data": the account is missing or maps to an empty dict
NoUserData(doc, account) ==
    ~MapHas(doc.v, account) \/ MapGet(doc.v, account).v = <<>>

FishRecordsOf(doc, account) ==
    IF NoUserData(doc, account) THEN <<>>
    ELSE MapGet(MapGet(doc.v, account).v, "fish_records").v

\* next(fr for fr in fish_records if fr["fish_name"] == fish_name, None):
\* the index of the first record of the fish, 0 for None
FirstRecord(records, fish_name) ==
    IF \E i \in 1..Len(records) : records[i].fish_name = fish_name
    THEN CHOOSE i \in 1..Len(records) :
            /\ records[i].fish_name = fish_name
            /\ \A j \in 1..(i - 1) : records[j].fish_name # fish_name
    ELSE 0

\* the weight check of add_fish_weight raises ValueError
InvalidWeight(weight) ==
    weight.t \notin {"int", "bool", "float"} \/ NumOf(weight)[1] <= 0

\* mutant of AddWeight: a new record is appended for every catch
AddWeightAsNewRecord(doc, account, fish_name, weight) ==
    JMap(MapSet(doc.v, account,
                UserData(Append(FishRecordsOf(doc, account),
                                FishRecord(fish_name, <<weight>>)))))

\* the document add_fish_weight passes to _save_data
AddWeight(doc, account, fish_name, weight) ==
    LET records == FishRecordsOf(doc, account)
        i == FirstRecord(records, fish_name)
        updated == IF i = 0 THEN Append(records, FishRecord(fish_name, <<weight>>))
                   ELSE [records EXCEPT ![i].weights = Append(@, weight)]
    IN  JMap(MapSet(doc.v, account, UserData(updated)))

\* sum(record["weights"]), the weights being whole numbers
RECURSIVE SumWeights(_)
SumWeights(weights) ==
    IF weights = <<>> THEN 0
    ELSE (IF Head(weights).t = "int" THEN Head(weights).v ELSE 1)
         + SumWeights(Tail(weights))

\* the list get_fish_records returns
FishRecordsResult(doc, account, fish_name) ==
    LET records == FishRecordsOf(doc, account)
        hits == SelectSeq(records, LAMBDA r : r.fish_name = fish_name)
    IN  [t |-> "list",
         v |-> [i \in 1..Len(hits) |->
                  [fish_name |-> hits[i].fish_name, weights |-> hits[i].weights,
                   count |-> Len(hits[i].weights),
                   total_weight |-> SumWeights(hits[i].weights)]]]

InitialCreels == { JMap(<< [k |-> "u1", v |-> UserData(<<FishRecord("carp", <<PyInt(3)>>)>>)] >>) }

CreelInit ==
    /\ storeKind = "creel"
    /\ platform \in {"posix", "nt"}
    /\ readable = TRUE
    /\ opsLimit = MaxOps
    /\ dirExists = TRUE
    /\ \/ fileExists = FALSE /\ file = <<>>
       \/ fileExists = TRUE /\ file \in {DumpLines(d) : d \in InitialCreels}
    /\ temp = [p \in Handlers |-> NoTemp]
    /\ lock = NoHolder
    /\ pc = [p \in Handlers |-> "idle"]
    /\ config = [p \in Handlers |-> <<>>]
    /\ data = [p \in Handlers |-> EmptyDoc]
    /\ fd = [p \in Handlers |-> "none"]
    /\ result = [p \in Handlers |-> "none"]
    /\ ret = [p \in Handlers |-> PyNone]
    /\ waited = [p \in Handlers |-> 0]
    /\ ops = [p \in Handlers |-> 0]
    /\ call = [p \in Handlers |-> NoCall]
    /\ saved = <<>>
    /\ NoCommand

CreelCall(op, account, fish_name, weight) ==
    [op |-> op, account |-> account, fish |-> fish_name, weight |-> weight]

\* the operation of handler p ends, returning or raising r
CreelReturn(p, r) ==
    /\ pc' = [pc EXCEPT ![p] = "idle"]
    /\ ret' = [ret EXCEPT ![p] = r]
    /\ ops' = [ops EXCEPT ![p] = @ + 1]

\* add_fish_weight(account, fish_name, weight) is called: the weight check
add_fish_weight(p, account, fish_name, weight) ==
    /\ storeKind = "creel" /\ pc[p] = "idle" /\ ops[p] < opsLimit
    /\ call' = [call EXCEPT ![p] = CreelCall("add_fish_weight", account, fish_name, weight)]
    /\ IF InvalidWeight(weight)
       THEN CreelReturn(p, RaiseRet("ValueError"))
       ELSE pc' = [pc EXCEPT ![p] = "c_load"] /\ UNCHANGED <<ret, ops>>
    /\ UNCHANGED <<env, disk, temp, lock, memory, fd, result, saved, waited>>

\* get_fish_records(account, fish_name) is called
get_fish_records(p, account, fish_name) ==
    /\ storeKind = "creel" /\ pc[p] = "idle" /\ ops[p] < opsLimit
    /\ call' = [call EXCEPT ![p] = CreelCall("get_fish_records", account, fish_name, PyNone)]
    /\ pc' = [pc EXCEPT ![p] = "c_load"]
    /\ UNCHANGED <<env, disk, temp, lock, memory, fd, result, saved, ret, waited, ops>>

\* what UnifiedCreelManager._load_data returns: {} without a file, else
\* json.load of the file as it is at this moment (no lock is taken)
CreelLoaded == IF fileExists THEN json_load(file) ELSE EmptyDoc

\* _load_data and what the operation does with the document: get_fish_records
\* returns its list, add_fish_weight adds the weight and goes on to _save_data
CreelLoad(p) ==
    /\ pc[p] = "c_load"
    /\ IF fileExists /\ ~readable
       THEN CreelReturn(p, RaiseRet("RuntimeError")) /\ UNCHANGED data
       ELSE IF fileExists /\ LoadFails(file)
       THEN CreelReturn(p, RaiseRet("JSONDecodeError")) /\ UNCHANGED data
       ELSE IF call[p].op = "get_fish_records"
       THEN /\ CreelReturn(p, FishRecordsResult(CreelLoaded, call[p].account, call[p].fish))
            /\ UNCHANGED data
       ELSE /\ data' = [data EXCEPT ![p] =
                          AddWeight(CreelLoaded, call[p].account, call[p].fish, call[p].weight)]
            /\ pc' = [pc EXCEPT ![p] = "c_acquire"]
            /\ UNCHANGED <<ret, ops>>
    /\ UNCHANGED <<env, disk, temp, lock, config, fd, outcome, waited>>

\* _save_data: FileLock(self.lock_path, timeout=5) is acquired
CreelAcquire(p) ==
    /\ pc[p] = "c_acquire"
    /\ lock = NoHolder
    /\ lock' = p
    /\ waited' = [waited EXCEPT ![p] = 0]
    /\ pc' = [pc EXCEPT ![p] = "c_open"]
    /\ UNCHANGED <<env, disk, temp, memory, fd, outcome, ret, ops>>

\* _save_data: the lock is held and the timeout has not passed; poll again
CreelWait(p) ==
    /\ pc[p] = "c_acquire"
    /\ lock # NoHolder
    /\ waited[p] <= LockTimeout
    /\ waited' = [waited EXCEPT ![p] = @ + 1]
    /\ UNCHANGED <<env, disk, temp, lock, pc, memory, fd, outcome, ret, ops>>

\* _save_data: the lock is held and the timeout has passed; filelock raises
\* Timeout, which add_fish_weight lets through
CreelTimeout(p) ==
    /\ pc[p] = "c_acquire"
    /\ lock # NoHolder
    /\ waited[p] > LockTimeout
    /\ waited' = [waited EXCEPT ![p] = 0]
    /\ CreelReturn(p, RaiseRet("Timeout"))
    /\ UNCHANGED <<env, disk, temp, lock, memory, fd, outcome>>

\* _save_data: open(self.data_file, "w") creates or empties the data file
CreelOpen(p) ==
    /\ pc[p] = "c_open"
    /\ fileExists' = TRUE
    /\ UNCHANGED dirExists
    /\ file' = <<>>
    /\ fd' = [fd EXCEPT ![p] = "open"]
    /\ pc' = [pc EXCEPT ![p] = "c_write"]
    /\ UNCHANGED <<env, temp, lock, memory, outcome, ret, waited, ops>>

\* _save_data: json.dump(data, f, indent=4): the next line of the document
\* reaches the data file; after the last one the file is closed
CreelWrite(p) ==
    /\ pc[p] = "c_write"
    /\ LET all == json_dump(data[p])
       IN  IF Len(file) < Len(all)
           THEN file' = Append(file, all[Len(file) + 1]) /\ UNCHANGED <<pc, fd>>
           ELSE /\ pc' = [pc EXCEPT ![p] = "c_exit"]
                /\ fd' = [fd EXCEPT ![p] = "none"]
                /\ UNCHANGED file
    /\ UNCHANGED <<env, dirExists, fileExists, temp, lock, memory, outcome, ret, waited, ops>>

\* _save_data leaves "with lock" and returns True, and so does add_fish_weight
CreelExit(p) ==
    /\ pc[p] = "c_exit"
    /\ lock' = Released(p)
    /\ saved' = Append(saved, p)
    /\ CreelReturn(p, PyBool(TRUE))
    /\ UNCHANGED <<env, disk, temp, memory, fd, result, call, waited>>

\* weights the handlers report: one of their own, and one that is refused
CreelWeights(p) == { PyInt(Mark(p)), PyInt(0) }

CreelNext ==
    \/ \E p \in Handlers : \E a \in Accounts, f \in FishNames, w \in CreelWeights(p) :
            add_fish_weight(p, a, f, w)
    \/ \E p \in Handlers : \E a \in Accounts, f \in FishNames : get_fish_records(p, a, f)
    \/ \E p \in Handlers : CreelLoad(p)
    \/ \E p \in Handlers : CreelAcquire(p)
    \/ \E p \in Handlers : CreelWait(p)
    \/ \E p \in Handlers : CreelTimeout(p)
    \/ \E p \in Handlers : CreelOpen(p)
    \/ \E p \in Handlers : CreelWrite(p)
    \/ \E p \in Handlers : CreelExit(p)

SpecCreel == CreelInit /\ [][CreelNext]_vars

\* C7: a load of the catch log that runs while another handler is inside
\* _save_data reads a complete document: no operation of the catch log ends
\* with a JSON parse error.
C7_LoadSeesWholeDocument ==
    \A p \in Handlers : ret[p].t = "raise" => ret[p].v # "JSONDecodeError"

(***************************************************************************)
(* SpecIni: one handler constructs an IniFileReader, reads and updates it  *)
(* and then saves or returns without saving; when it has ended, a fresh    *)
(* IniFileReader is constructed on the same file and read.                 *)
(***************************************************************************)
Writer == "h1"
Fresh == "h2"

\* positions at which the work of a handler on its store is over
Ended == {"done", "failed", "crashed", "dropped", "load_error"}

IniKeys == { <<"k">>, <<"K">> }
IniValues == { PyInt(7), PyBool(TRUE), PyFloat(15, -1), PyStr(<<"a">>), PyStr(<<"%">>) }
IniDefaults == { PyNone, PyInt(0) }
IniPairs == { << [k |-> <<"k">>, v |-> PyInt(7)], [k |-> <<"n">>, v |-> PyStr(<<"a">>)] >> }

IniInit == Init /\ storeKind = "ini"

IniNext ==
    \/ IniConstruct(Writer)
    \/ \E s \in Sections, c \in BOOLEAN : read_section(Writer, s, c)
    \/ \E s \in Sections, k \in IniKeys, d \in IniDefaults : read_key(Writer, s, k, d)
    \/ read_all(Writer)
    \/ \E s \in Sections, k \in IniKeys, v \in IniValues : update_key(Writer, s, k, v)
    \/ \E s \in Sections, d \in IniPairs : update_section_keys(Writer, s, d)
    \/ Drop(Writer)
    \/ SaveCall(Writer)
    \/ AcquireLock(Writer)
    \/ CreateTemp(Writer)
    \/ CreateTempFail(Writer)
    \/ WriteTemp(Writer)
    \/ FsyncTemp(Writer)
    \/ WriteFail(Writer)
    \/ ReplaceFile(Writer)
    \/ ReplaceFail(Writer)
    \/ CleanupTemp(Writer)
    \/ ExitSave(Writer)
    \/ Crash(Writer)
    \/ pc[Writer] \in Ended /\ IniConstruct(Fresh)
    \/ \E s \in Sections, c \in BOOLEAN : read_section(Fresh, s, c)
    \/ \E s \in Sections, k \in IniKeys, d \in IniDefaults : read_key(Fresh, s, k, d)
    \/ read_all(Fresh)

SpecIni == IniInit /\ [][IniNext]_vars

\* the handler takes a step that is an operation on the in-memory store, or
\* drops the store
MemoryStep(p) ==
    /\ pc[p] = "ready"
    /\ pc'[p] \in {"ready", "dropped"}
    /\ ops'[p] # ops[p] \/ pc'[p] # pc[p]

\* the data file is one the handlers found, not one they have written
FileAsFound ==
    IF fileExists THEN file \in InitialFiles(storeKind) ELSE file = <<>>

\* C8: no operation of an IniFileReader other than save() changes the data
\* file, and once a store has been mutated and dropped without a save the
\* file is as it was found and a fresh store holds exactly what the file
\* holds.
C8_NoImplicitFlush ==
    /\ [][\A p \in Handlers :
             MemoryStep(p) => fileExists' = fileExists /\ file' = file]_vars
    /\ [](pc[Writer] = "dropped" =>
             /\ FileAsFound
             /\ (pc[Fresh] = "ready" /\ ops[Fresh] = 0) => config[Fresh] = _load_config)

\* the writer has changed a key and was dropped; the fresh store does not
\* have the change
C8_Witness ==
    /\ pc[Writer] = "dropped"
    /\ call[Writer].op = "update_key"
    /\ ret[Writer].t = "none"
    /\ pc[Fresh] = "ready"
    /\ config[Fresh] = _load_config
    /\ config[Fresh] # config[Writer]

\* the strings the round trip is not claimed for: those that read back as a
\* number or a boolean, and those with surrounding whitespace
RoundTripExcepted(value) ==
    value.t = "str" /\ (_convert_value(value.v).t # "str" \/ Strip(value.v) # value.v)

\* C9: update_key(s, k, v) has returned and save() after it, a fresh
\* IniFileReader has been constructed and its read_key(s, k) has been called:
\* that call returned a value equal to v.
C9_RoundTrip ==
    ( /\ pc[Writer] = "done"
      /\ call[Writer].op = "update_key"
      /\ ret[Writer].t = "none"
      /\ ~RoundTripExcepted(call[Writer].value)
      /\ pc[Fresh] = "ready"
      /\ call[Fresh].op = "read_key"
      /\ call[Fresh].section = call[Writer].section
      /\ call[Fresh].key = call[Writer].key
      /\ call[Fresh].value.t = "none" )
    => ret[Fresh].t # "raise" /\ PyEq(ret[Fresh], call[Writer].value)

(***************************************************************************)
(* SpecCoerce: _convert_value applied to a text.                           *)
(***************************************************************************)
CoerceChars == { "1", "-", ".", "e", " ", "o", "n", "N" }
CoerceWords ==
    { <<"t","r","u","e">>, <<"4","2">>, <<"T","R","U","E">>, <<" ","Y","e","s"," ">>,
      <<"o","f","f">>, <<"F","a","l","s","e">>, <<"-","n","a","n">>, <<"a"," ","b"," ">> }
CoerceTexts == UNION { [1..n -> CoerceChars] : n \in 0..MaxTextLen } \cup CoerceWords

CoerceInit ==
    /\ storeKind = "coerce"
    /\ platform = "posix"
    /\ readable = TRUE
    /\ opsLimit = MaxOps
    /\ dirExists = TRUE
    /\ fileExists = FALSE /\ file = <<>>
    /\ temp = [p \in Handlers |-> NoTemp]
    /\ lock = NoHolder
    /\ pc = [p \in Handlers |-> "idle"]
    /\ config = [p \in Handlers |-> <<>>]
    /\ data = [p \in Handlers |-> EmptyDoc]
    /\ fd = [p \in Handlers |-> "none"]
    /\ result = [p \in Handlers |-> "none"]
    /\ ret = [p \in Handlers |-> PyNone]
    /\ waited = [p \in Handlers |-> 0]
    /\ ops = [p \in Handlers |-> 0]
    /\ \E text \in CoerceTexts :
          call = [p \in Handlers |->
                    IF p = Writer THEN StoreCall("_convert_value", "", <<>>, PyStr(text))
                    ELSE NoCall]
    /\ saved = <<>>
    /\ NoCommand

\* _convert_value(value) is called and returns
ConvertValue(p) ==
    /\ storeKind = "coerce"
    /\ pc[p] = "idle"
    /\ call[p].op = "_convert_value"
    /\ ret' = [ret EXCEPT ![p] = _convert_value(call[p].value.v)]
    /\ pc' = [pc EXCEPT ![p] = "returned"]
    /\ UNCHANGED <<env, disk, temp, lock, memory, fd, outcome, waited, ops>>

CoerceNext == \E p \in Handlers : ConvertValue(p)

SpecCoerce == CoerceInit /\ [][CoerceNext]_vars

\* the text is one of the words, whatever the case of its letters and the
\* whitespace around it
IsWord(text, words) == Lower(Strip(text)) \in words

\* C10: the value read from a text is the integer if the text parses as an
\* integer; otherwise the float if it parses as a float; otherwise True or
\* False if it is one of the boolean keywords in any case; otherwise the
\* trimmed string.  The texts "true" and "42" read as True and 42.
C10_CoercionPrecedence ==
    \A p \in Handlers :
        pc[p] = "returned" =>
            LET text == call[p].value.v
                r == ret[p]
                isNumber == IsIntText(text) \/ IsFloatText(text)
                isKeyword == IsWord(text, TrueWords) \/ IsWord(text, FalseWords)
            IN  /\ IsIntText(text) => r = PyInt(IntOfText(text))
                /\ (~IsIntText(text) /\ IsFloatText(text)) =>
                        IsPyFloat(r) /\ r = FloatOfText(text)
                /\ (~isNumber /\ IsWord(text, TrueWords)) => r = PyBool(TRUE)
                /\ (~isNumber /\ IsWord(text, FalseWords)) => r = PyBool(FALSE)
                /\ (~isNumber /\ ~isKeyword) => r = PyStr(Strip(text))
                /\ text = <<"t","r","u","e">> => r = PyBool(TRUE)
                /\ text = <<"4","2">> => r = PyInt(42)

\* a keyword in capitals with whitespace around it has been read as a boolean
C10_Witness ==
    \E p \in Handlers :
        /\ pc[p] = "returned"
        /\ call[p].value.v = <<" ","Y","e","s"," ">>
        /\ ret[p] = PyBool(TRUE)

(***************************************************************************)
(* SpecTable: one store, an IniFileReader or a BaseJsonFileHandler, is      *)
(* constructed on whatever is at its path and its in-memory operations are *)
(* called, with any arguments.                                             *)
(***************************************************************************)
\* the per-handler state before anything has been constructed or called
Started(at) ==
    /\ temp = [p \in Handlers |-> NoTemp]
    /\ lock = NoHolder
    /\ pc = [p \in Handlers |-> at]
    /\ config = [p \in Handlers |-> <<>>]
    /\ data = [p \in Handlers |-> EmptyDoc]
    /\ fd = [p \in Handlers |-> "none"]
    /\ result = [p \in Handlers |-> "none"]
    /\ ret = [p \in Handlers |-> PyNone]
    /\ waited = [p \in Handlers |-> 0]
    /\ ops = [p \in Handlers |-> 0]
    /\ call = [p \in Handlers |-> NoCall]
    /\ saved = <<>>
    /\ NoCommand

\* what may be at the path: nothing (with or without the directory), or a
\* file, well-formed or not, that can or cannot be opened
Found(files) ==
    \/ /\ fileExists = FALSE /\ file = <<>>
       /\ dirExists \in BOOLEAN
       /\ readable = TRUE
    \/ /\ fileExists = TRUE /\ file \in files
       /\ dirExists = TRUE
       /\ readable \in BOOLEAN

\* files ConfigParser.read rejects: an option before any section header, a
\* section that occurs twice
MalformedInis ==
    { << KvLine(<<"k">>, <<"1">>) >>,
      << SecLine("u1"), EndLine, SecLine("u1"), EndLine >> }

TableSections == Sections \cup {DefaultSect}
TablePairs ==
    { << [k |-> <<"n">>, v |-> PyStr(<<"a">>)], [k |-> <<"K">>, v |-> PyInt(7)] >>,
      << [k |-> <<"n">>, v |-> PyInt(7)] >>,
      << [k |-> <<"n">>, v |-> PyStr(<<"%">>)], [k |-> <<"k">>, v |-> PyInt(7)] >>,
      << >> }

\* files json.load rejects: an empty file, a document that is cut off
MalformedJsons == { << >>, << OpenLine(""), OpenLine("a") >> }

\* documents the handler may find: {"a": {"b": 1}}, {"a": {"b": {}}, "n": 1}
TableDocs ==
    { JMap(<< [k |-> "a", v |-> JMap(<< [k |-> "b", v |-> JInt(1)] >>)] >>),
      JMap(<< [k |-> "a", v |-> JMap(<< [k |-> "b", v |-> EmptyDoc] >>)],
              [k |-> "n", v |-> JInt(1)] >>) }

TableFiles(kind) ==
    IF kind = "ini" THEN InitialFiles("ini") \cup MalformedInis
    ELSE {DumpLines(d) : d \in TableDocs} \cup MalformedJsons

\* update_data(key, value, validate, expected_type): the dotted keys, split
TablePaths == { <<"a">>, <<"a", "b">>, <<"a", "b", "c">>, <<"x", "y">>, <<"">> }
TableDocValues == { JInt(5), JStr("s"), JList(<<>>) }
ExpectedTypes == { "None", "int", "str" }

TableInit ==
    /\ storeKind \in {"ini", "json"}
    /\ platform = "posix"
    /\ opsLimit = MaxCalls
    /\ Found(TableFiles(storeKind))
    /\ Started("new")

TableNext ==
    \/ IniConstruct(Writer)
    \/ \E s \in TableSections, c \in BOOLEAN : read_section(Writer, s, c)
    \/ \E s \in TableSections, k \in IniKeys, d \in IniDefaults : read_key(Writer, s, k, d)
    \/ read_all(Writer)
    \/ \E s \in TableSections, k \in IniKeys, v \in IniValues : update_key(Writer, s, k, v)
    \/ \E s \in TableSections, d \in TablePairs : update_section_keys(Writer, s, d)
    \/ JsonLoad(Writer)
    \/ JsonMissing(Writer)
    \/ JsonCreateOpen(Writer)
    \/ JsonCreateDump(Writer)
    \/ \E ks \in TablePaths, v \in TableDocValues, c \in BOOLEAN, t \in ExpectedTypes :
            update_data(Writer, ks, v, c, t)

SpecTable == TableInit /\ [][TableNext]_vars

\* C11: read_section never raises, and for a section that is not in the
\* table it returns an empty mapping.
C11_ReadSectionNeverRaises ==
    \A p \in Handlers :
        call[p].op = "read_section" =>
            /\ ret[p].t = "dict"
            /\ ~has_section(config[p], call[p].section) => ret[p].v = <<>>

\* the handler takes a step that is a call of the operation op
CallStep(p, op) == call'[p].op = op /\ ops'[p] = ops[p] + 1

\* the text stored in the table under the section and the key as given
StoredText(cfg, section, key) ==
    LET items == cfg[SectionIndex(cfg, section)].items
    IN  items[CHOOSE i \in 1..Len(items) : items[i].k = key].v

KeyStored(cfg, section, key) ==
    has_section(cfg, section) /\ HasOption(cfg[SectionIndex(cfg, section)].items, key)

\* C12: read_key returns the coerced stored value when the key is in the
\* section, else the default when one was given, else raises ValueError; and
\* it leaves the in-memory table as it was.
C12_ReadKey ==
    [][\A p \in Handlers :
          CallStep(p, "read_key") =>
              LET section == call'[p].section
                  key == call'[p].key
                  default == call'[p].value
              IN  /\ config'[p] = config[p]
                  /\ IF KeyStored(config[p], section, key)
                     THEN ret'[p] = _convert_value(Interpolate(StoredText(config[p], section, key)))
                     ELSE IF default.t # "none" THEN ret'[p] = default
                     ELSE ret'[p] = RaiseRet("ValueError")]_vars

\* read_key has returned the default for a section that is not in the table,
\* and the section is still not in the table
C12_Witness ==
    \E p \in Handlers :
        /\ call[p].op = "read_key"
        /\ call[p].value.t = "int"
        /\ ret[p] = call[p].value
        /\ call[p].section = "u2"
        /\ ~has_section(config[p], "u2")

\* C13: update_key is idempotent.  A call of update_key that repeats the
\* previous call leaves the table and what the call returned or raised as
\* they were; after any update_key, applying it again would give the same
\* table and the same file content on save(); and a call that returned has
\* left the section in the table, with the key in it.
C13_UpdateKeyIdempotent ==
    /\ [][\A p \in Handlers :
             ( /\ CallStep(p, "update_key")
               /\ call[p].op = "update_key"
               /\ call'[p].section = call[p].section
               /\ call'[p].key = call[p].key
               /\ call'[p].value = call[p].value )
             => config'[p] = config[p] /\ ret'[p] = ret[p]]_vars
    /\ [](\A p \in Handlers :
             call[p].op = "update_key" =>
                 LET again == UpdateKeyConfig(config[p], call[p].section,
                                              call[p].key, call[p].value)
                 IN  /\ again = config[p]
                     /\ config_write(again) = config_write(config[p])
                     /\ ret[p].t = "none" =>
                            KeyStored(config[p], call[p].section, Lower(call[p].key)))

\* update_key has been called twice with the same arguments on a section
\* that was not in the file, and the section is in the table with the value
C13_Witness ==
    \E p \in Handlers :
        /\ ops[p] = 2
        /\ call[p].op = "update_key"
        /\ call[p].section = "u2"
        /\ ret[p].t = "none"
        /\ config[p] = UpdateKeyConfig(_load_config, "u2", call[p].key, call[p].value)
        /\ ~has_section(_load_config, "u2")

\* the table after update_key(section, k, v) has been called for each pair
\* in turn, up to and including the first call that raises
RECURSIVE EachUpdateKey(_, _, _)
EachUpdateKey(cfg, section, pairs) ==
    IF pairs = <<>> THEN cfg
    ELSE LET next == UpdateKeyConfig(cfg, section, Head(pairs).k, Head(pairs).v)
         IN  IF UpdateKeyRaises(cfg, section, Head(pairs).v) THEN next
             ELSE EachUpdateKey(next, section, Tail(pairs))

\* the table with the section in it, where the name allows that
WithSection(cfg, section) ==
    IF ~has_section(cfg, section) /\ CanAddSection(section)
    THEN add_section(cfg, section) ELSE cfg

\* the keys of the pairs, as the table names them
NamedKeys(pairs) == { Lower(pairs[i].k) : i \in 1..Len(pairs) }

\* C14 as stated: update_section_keys(s, m) leaves the table as the calls
\* update_key(s, k, m[k]), one for every key k of m, leave it.
C14_SameAsUpdateKeys ==
    [][\A p \in Handlers :
          CallStep(p, "update_section_keys") =>
              config'[p] = EachUpdateKey(config[p], call'[p].section, call'[p].value.v)]_vars

\* C14, amended: update_section_keys(s, m) leaves the table as creating the
\* section s if it is absent and then calling update_key(s, k, m[k]) for
\* every key k of m leave it; every other section is unchanged and every
\* field of s that m does not name keeps its value.
C14_SameAsUpdateKeysOnSection ==
    [][\A p \in Handlers :
          CallStep(p, "update_section_keys") =>
              LET section == call'[p].section
                  pairs == call'[p].value.v
                  old == config[p]
                  new == config'[p]
              IN  /\ new = EachUpdateKey(WithSection(old, section), section, pairs)
                  /\ Len(new) >= Len(old)
                  /\ \A i \in 1..Len(old) :
                        /\ new[i].name = old[i].name
                        /\ old[i].name # section => new[i] = old[i]
                        /\ old[i].name = section =>
                              \A j \in 1..Len(old[i].items) :
                                  old[i].items[j].k \notin NamedKeys(pairs) =>
                                      new[i].items[j] = old[i].items[j]]_vars

\* update_section_keys has set a new field in a section of the file, and the
\* field the file had there, which the call did not name, has its value
C14_Witness ==
    \E p \in Handlers :
        /\ call[p].op = "update_section_keys"
        /\ call[p].section = "u1"
        /\ ret[p].t = "none"
        /\ KeyStored(config[p], "u1", <<"n">>)
        /\ KeyStored(_load_config, "u1", <<"k">>)
        /\ ~KeyStored(_load_config, "u1", <<"n">>)
        /\ KeyStored(config[p], "u1", <<"k">>)
        /\ StoredText(config[p], "u1", <<"k">>) = StoredText(_load_config, "u1", <<"k">>)

\* positions of a handler inside the construction of its store
ConstructPcs == {"new", "mk_open", "mk_dump"}

\* C15: the construction of a BaseJsonFileHandler where there is no file ends
\* with the directory and the file in place, the file holding an empty JSON
\* object, and an empty root mapping in memory; on an existing file it loads
\* the content of the file and leaves the file as it is; no step of the
\* construction of an IniFileReader changes a file or a directory.
C15_Construction ==
    [][\A p \in Handlers :
          (pc[p] \in ConstructPcs /\ pc'[p] # pc[p]) =>
              /\ storeKind = "ini" => disk' = disk
              /\ (storeKind = "json" /\ pc[p] = "new" /\ fileExists) =>
                    /\ disk' = disk
                    /\ pc'[p] = "ready" => data'[p] = json_load(file)
              /\ (storeKind = "json" /\ pc[p] = "mk_dump") =>
                    /\ pc'[p] = "ready"
                    /\ dirExists' /\ fileExists'
                    /\ file' = DumpLines(EmptyDoc)
                    /\ json_load(file') = EmptyDoc
                    /\ data'[p] = EmptyDoc]_vars

\* a BaseJsonFileHandler has been constructed where there was no file: the
\* file is there and holds {}
C15_Witness ==
    \E p \in Handlers :
        /\ storeKind = "json"
        /\ pc[p] = "ready" /\ ops[p] = 0
        /\ dirExists /\ fileExists
        /\ file = DumpLines(EmptyDoc)
        /\ file \notin TableFiles("json")
        /\ data[p] = EmptyDoc

(***************************************************************************)
(* Properties of update_data, stated by navigating the tree.               *)
(***************************************************************************)
Missing == [t |-> "missing", v |-> 0]

\* the node reached from node along the keys, Missing if there is none
RECURSIVE Navigate(_, _)
Navigate(node, keys) ==
    IF keys = <<>> THEN node
    ELSE IF node.t # "map" \/ ~MapHas(node.v, Head(keys)) THEN Missing
    ELSE Navigate(MapGet(node.v, Head(keys)), Tail(keys))

\* the paths of all entries of the tree
RECURSIVE AllPaths(_)
AllPaths(node) ==
    IF node.t # "map" THEN { <<>> }
    ELSE { <<>> } \cup
         UNION { { <<node.v[i].k>> \o q : q \in AllPaths(node.v[i].v) } :
                 i \in 1..Len(node.v) }

IsPrefix(a, b) == Len(a) <= Len(b) /\ SubSeq(b, 1, Len(a)) = a

\* the entry at path q is on the path keys: above, at or below its end
OnPath(q, keys) == IsPrefix(q, keys) \/ IsPrefix(keys, q)

\* an intermediate segment of keys holds a value that is not a mapping
Conflicts(doc, keys) ==
    \E i \in 1..(Len(keys) - 1) :
        Navigate(doc, SubSeq(keys, 1, i)).t \notin {"map", "missing"}

\* the type check applies and the value is not of the expected type
Mismatch(value, validate, expected_type) ==
    validate /\ expected_type # "None" /\ ~IsInstance(value, expected_type)

\* every entry of the two trees that is not on the path is the same in both
SameOffPath(old, new, keys) ==
    \A q \in AllPaths(old) \cup AllPaths(new) :
        ~OnPath(q, keys) => Navigate(new, q) = Navigate(old, q)

\* C16: update_data on a path without a conflict (and with a key and a
\* value that pass the checks) returns; the missing intermediate nodes are
\* then mappings, navigating the path yields the value, and every entry that
\* is not on the path is as before.
C16_PathCreated ==
    [][\A p \in Handlers :
          ( /\ CallStep(p, "update_data")
            /\ call'[p].key # <<"">>
            /\ ~Conflicts(data[p], call'[p].key)
            /\ ~Mismatch(call'[p].value, call'[p].validate, call'[p].expected_type) )
          => /\ ret'[p].t = "none"
             /\ Navigate(data'[p], call'[p].key) = call'[p].value
             /\ \A i \in 1..(Len(call'[p].key) - 1) :
                   Navigate(data'[p], SubSeq(call'[p].key, 1, i)).t = "map"
             /\ SameOffPath(data[p], data'[p], call'[p].key)]_vars

\* update_data("x.y", 5) on {"a": {"b": 1}}: x was missing, x.y is 5 and
\* a.b is still 1
C16_Witness ==
    \E p \in Handlers :
        /\ ops[p] = 1
        /\ call[p].op = "update_data"
        /\ call[p].key = <<"x", "y">>
        /\ ret[p].t = "none"
        /\ Navigate(json_load(file), <<"x">>) = Missing
        /\ Navigate(data[p], <<"x", "y">>) = JInt(5)
        /\ Navigate(data[p], <<"a", "b">>) = JInt(1)

\* C17: update_data on a path one of whose intermediate segments holds a
\* value that is not a mapping raises ValueError and leaves the tree as it
\* was.
C17_ConflictRaises ==
    [][\A p \in Handlers :
          (CallStep(p, "update_data") /\ Conflicts(data[p], call'[p].key)) =>
              /\ ret'[p] = RaiseRet("ValueError")
              /\ data'[p] = data[p]]_vars

\* update_data("a.b.c", 5) on {"a": {"b": 1}} has raised and the tree is
\* still {"a": {"b": 1}}
C17_Witness ==
    \E p \in Handlers :
        /\ call[p].op = "update_data"
        /\ call[p].key = <<"a", "b", "c">>
        /\ call[p].value = JInt(5)
        /\ ret[p] = RaiseRet("ValueError")
        /\ data[p] = JMap(<< [k |-> "a", v |-> JMap(<< [k |-> "b", v |-> JInt(1)] >>)] >>)

\* C18: update_data with validate set and an expected type that the value
\* does not have raises ValueError, and what was at the final key is still
\* there; with validate false or no expected type, a call on a path without
\* a conflict writes the value, whatever its type.
C18_TypeCheck ==
    [][\A p \in Handlers :
          CallStep(p, "update_data") =>
              LET c == call'[p]
              IN  /\ Mismatch(c.value, c.validate, c.expected_type) =>
                        /\ ret'[p] = RaiseRet("ValueError")
                        /\ Navigate(data'[p], c.key) = Navigate(data[p], c.key)
                  /\ ( /\ ~c.validate \/ c.expected_type = "None"
                       /\ c.key # <<"">>
                       /\ ~Conflicts(data[p], c.key) ) =>
                        /\ ret'[p].t = "none"
                        /\ Navigate(data'[p], c.key) = c.value]_vars

\* update_data("a.b", "s", validate=True, expected_type=int) has raised and
\* a.b is still 1
C18_Witness ==
    \E p \in Handlers :
        /\ call[p].op = "update_data"
        /\ call[p].key = <<"a", "b">>
        /\ call[p].value = JStr("s")
        /\ call[p].validate /\ call[p].expected_type = "int"
        /\ ret[p] = RaiseRet("ValueError")
        /\ Navigate(data[p], <<"a", "b">>) = JInt(1)

\* C19: in every save() the temporary file has been fsynced by the time it
\* is renamed over the data file.
C19_FsyncBeforeRename ==
    \A p \in Handlers : pc[p] = "finally_ok" => temp[p].synced

\* the file at the path cannot be opened, or is not of the store's format
BadFile ==
    \/ ~readable
    \/ IF storeKind = "ini" THEN ReadFails(<<>>, file) ELSE LoadFails(file)

\* C20: no store has been constructed over an existing file that cannot be
\* read or parsed: the construction has raised instead.
C20_NoStoreOverBadFile ==
    \A p \in Handlers : pc[p] = "ready" => ~(fileExists /\ BadFile)

(***************************************************************************)
(* JobFileHandler: the job catalog, a document {series: {code: job}} whose *)
(* codes are texts of four digits and whose jobs are mappings with a       *)
(* "jobName".  The queries read self.data and change nothing.              *)
(***************************************************************************)
JText(cs) == [t |-> "text", v |-> cs]
Job(name) == JMap(<< [k |-> "jobName", v |-> JText(name)] >>)
JobName(job_info) == MapGet(job_info.v, "jobName").v

\* tuples of integers, compared as Python compares tuples
RECURSIVE KeyLess(_, _)
KeyLess(a, b) ==
    IF a = <<>> \/ b = <<>> THEN a = <<>> /\ b # <<>>
    ELSE IF Head(a) # Head(b) THEN Head(a) < Head(b)
    ELSE KeyLess(Tail(a), Tail(b))

\* sorted(...) and list.sort(...) on [key, item] pairs: ascending by key,
\* items of equal key in their original order
RECURSIVE SortByKey(_)
SortByKey(pairs) ==
    IF pairs = <<>> THEN <<>>
    ELSE LET n == Len(pairs)
             rest == SortByKey(SubSeq(pairs, 1, n - 1))
             x == pairs[n]
             at == Cardinality({i \in 1..Len(rest) : ~KeyLess(x.key, rest[i].key)})
         IN  SubSeq(rest, 1, at) \o <<x>> \o SubSeq(rest, at + 1, Len(rest))

Items(pairs) == [i \in 1..Len(pairs) |-> pairs[i].item]

\* mutant of SortedJobs: the codes stay in the order of the file
SortedJobsAsFound(jobs) == jobs

\* sorted(jobs.items(), key=lambda x: int(x[0]))
SortedJobs(jobs) ==
    Items(SortByKey([i \in 1..Len(jobs) |->
                        [key |-> <<IntOfText(jobs[i].k)>>, item |-> jobs[i]]]))

\* list.index(x), from 1; 0 when x is not in the list
IndexOf(seq, x) ==
    IF \E i \in 1..Len(seq) : seq[i] = x
    THEN CHOOSE i \in 1..Len(seq) : seq[i] = x /\ \A j \in 1..(i - 1) : seq[j] # x
    ELSE 0

\* the series get_next_job_info stops at: the first mapping, in the order
\* of self.data, that has job_id among its codes; 0 if there is none
SeriesOf(doc, job_id) ==
    LET hits == {i \in 1..Len(doc.v) :
                    doc.v[i].v.t = "map" /\ MapHas(doc.v[i].v.v, job_id)}
    IN  IF hits = {} THEN 0 ELSE CHOOSE i \in hits : \A j \in hits : i <= j

\* int(x[0]) raises ValueError in a series the loop sorts
NextJobRaises(doc, job_id) ==
    LET at == SeriesOf(doc, job_id)
        last == IF at = 0 THEN Len(doc.v) ELSE at
    IN  \E i \in 1..last :
            /\ doc.v[i].v.t = "map"
            /\ \E j \in 1..Len(doc.v[i].v.v) : ~IsIntText(doc.v[i].v.v[j].k)

\* what get_next_job_info returns
NextJobInfo(doc, job_id) ==
    LET at == SeriesOf(doc, job_id)
        sorted_jobs == SortedJobs(doc.v[at].v.v)
        job_ids == [i \in 1..Len(sorted_jobs) |-> sorted_jobs[i].k]
        current_index == IndexOf(job_ids, job_id)
    IN  IF NextJobRaises(doc, job_id) THEN RaiseRet("ValueError")
        ELSE IF at = 0 THEN PyNone
        ELSE IF current_index + 1 <= Len(job_ids) THEN sorted_jobs[current_index + 1].v
        ELSE PyNone

\* a query of the catalog: nothing but the returned value changes
JobQuery(p, op, arg, r) ==
    /\ InOp(p, "json")
    /\ ret' = [ret EXCEPT ![p] = r]
    /\ UNCHANGED memory
    /\ OpFrame(p, StoreCall(op, "", arg, PyNone))

get_next_job_info(p, job_id) ==
    JobQuery(p, "get_next_job_info", job_id, NextJobInfo(data[p], job_id))

\* str > str on texts of digits: the first differing character decides, a
\* proper prefix is the smaller
RECURSIVE StrGreater(_, _)
StrGreater(a, b) ==
    IF a = <<>> THEN FALSE
    ELSE IF b = <<>> THEN TRUE
    ELSE IF Head(a) # Head(b) THEN DigitVal(Head(a)) > DigitVal(Head(b))
    ELSE StrGreater(Tail(a), Tail(b))

\* self.data.get(major_id, {})
MajorJobs(doc, job_id) ==
    LET major_id == SubSeq(job_id, 1, 2)
    IN  IF MapHas(doc.v, major_id) THEN MapGet(doc.v, major_id).v ELSE <<>>

\* what get_promote_chain returns
PromoteChain(doc, job_id) ==
    LET major_jobs == MajorJobs(doc, job_id)
        sorted_job_ids == SortedJobs(major_jobs)
        above == SelectSeq(sorted_job_ids, LAMBDA e : StrGreater(e.k, job_id))
    IN  IF Len(job_id) # 4 THEN JList(<<>>)
        ELSE IF \E j \in 1..Len(major_jobs) : ~IsIntText(major_jobs[j].k)
        THEN RaiseRet("ValueError")
        ELSE JList([i \in 1..Len(above) |-> JobName(above[i].v)])

get_promote_chain(p, job_id) ==
    JobQuery(p, "get_promote_chain", job_id, PromoteChain(data[p], job_id))

\* str.split(): the maximal runs of characters that are not whitespace
RECURSIVE Split(_)
Split(cs) ==
    LET body == LStrip(cs)
        stop == IF \E i \in 1..Len(body) : IsSpace(body[i])
                THEN CHOOSE i \in 1..Len(body) :
                        IsSpace(body[i]) /\ \A j \in 1..(i - 1) : ~IsSpace(body[j])
                ELSE Len(body) + 1
    IN  IF body = <<>> THEN <<>>
        ELSE <<SubSeq(body, 1, stop - 1)>> \o Split(SubSeq(body, stop, Len(body)))

\* kw == text[:len(kw)]
StartsWith(text, kw) == Len(kw) <= Len(text) /\ SubSeq(text, 1, Len(kw)) = kw

\* kw in text
Contains(text, kw) ==
    \E i \in 0..(Len(text) - Len(kw)) : SubSeq(text, i + 1, i + Len(kw)) = kw

\* text.count(kw) for a keyword that is not empty: occurrences that do not
\* overlap, found from the left
RECURSIVE CountOf(_, _)
CountOf(text, kw) ==
    IF Len(text) < Len(kw) THEN 0
    ELSE IF StartsWith(text, kw)
    THEN 1 + CountOf(SubSeq(text, Len(kw) + 1, Len(text)), kw)
    ELSE CountOf(Tail(text), kw)

\* "".join(keywords)
RECURSIVE Joined(_)
Joined(keywords) ==
    IF keywords = <<>> THEN <<>> ELSE Head(keywords) \o Joined(Tail(keywords))

\* sum(len(kw) for kw in keywords)
MaxPossible(keywords) == Len(Joined(keywords))

Min(a, b) == IF a <= b THEN a ELSE b

\* rule 1 of _calculate_match_score over the first i keywords, each distinct
\* keyword (Counter) once; like every score here it is held multiplied by
\* max_possible, which keeps the division by max_possible exact
RECURSIVE KeywordScore(_, _, _)
KeywordScore(job_name, keywords, i) ==
    IF i = 0 THEN 0
    ELSE LET kw == keywords[i]
             seen == \E j \in 1..(i - 1) : keywords[j] = kw
         IN  KeywordScore(job_name, keywords, i - 1)
             + (IF ~seen /\ Contains(job_name, kw)
                THEN Min(CountOf(job_name, kw) * Len(kw) * 100,
                         100 * MaxPossible(keywords))
                ELSE 0)

\* _calculate_match_score(job_name, keywords), multiplied by max_possible
_calculate_match_score(job_name, keywords) ==
    LET max_possible == MaxPossible(keywords)
        top == 1000 * max_possible
        rule1 == KeywordScore(job_name, keywords, Len(keywords))
        rule2 == IF Contains(job_name, Joined(keywords))
                 THEN rule1 + Min(300 * max_possible, top - rule1) ELSE rule1
        rule3 == IF keywords # <<>> /\ StartsWith(job_name, keywords[1])
                 THEN rule2 + Min(200 * max_possible, top - rule2) ELSE rule2
    IN  IF max_possible = 0 THEN 0 ELSE Min(rule3, top)

\* keywords of get_job_info_ex
Keywords(job_name) ==
    LET raw_keywords == Split(Strip(job_name))
    IN  [i \in 1..Len(raw_keywords) |-> Lower(raw_keywords[i])]

\* job_info.get("jobName", "").strip().lower()
JobNameFull(job_info) ==
    IF MapHas(job_info.v, "jobName") THEN Lower(Strip(JobName(job_info))) ELSE <<>>

\* len(matched_keywords)
MatchedKeywords(name_full, keywords) ==
    Len(SelectSeq(keywords, LAMBDA kw : Contains(name_full, kw)))

\* every job of every series, in the order of the two loops
RECURSIVE AllJobs(_)
AllJobs(series) ==
    IF series = <<>> THEN <<>>
    ELSE (IF Head(series).v.t = "map"
          THEN LET jobs == Head(series).v.v
               IN  SelectSeq([i \in 1..Len(jobs) |-> jobs[i].v], LAMBDA j : j.t = "map")
          ELSE <<>>)
         \o AllJobs(Tail(series))

\* mutant of MatchKey: the score is left out of the key
MatchKeyNoScore(job_info, keywords) ==
    << 0 - MatchedKeywords(JobNameFull(job_info), keywords), Len(JobName(job_info)) >>

\* the sort key of a matched job
MatchKey(job_info, keywords) ==
    << 0 - _calculate_match_score(JobNameFull(job_info), keywords),
       0 - MatchedKeywords(JobNameFull(job_info), keywords),
       Len(JobName(job_info)) >>

\* what get_job_info_ex returns
JobInfoEx(doc, job_name) ==
    LET keywords == Keywords(job_name)
        matched_jobs ==
            SelectSeq(AllJobs(doc.v),
                      LAMBDA j : /\ JobNameFull(j) # <<>>
                                 /\ _calculate_match_score(JobNameFull(j), keywords) > 0)
    IN  IF keywords = <<>> THEN JList(<<>>)
        ELSE JList(Items(SortByKey([i \in 1..Len(matched_jobs) |->
                        [key |-> MatchKey(matched_jobs[i], keywords),
                         item |-> matched_jobs[i]]])))

get_job_info_ex(p, job_name) ==
    JobQuery(p, "get_job_info_ex", job_name, JobInfoEx(data[p], job_name))

(***************************************************************************)
(* SpecJobs: a JobFileHandler is constructed on a catalog file and its     *)
(* queries are called.                                                     *)
(***************************************************************************)
JobSeries(major_id, jobs) == [k |-> major_id, v |-> JMap(jobs)]
JobEntry(job_id, name) == [k |-> job_id, v |-> Job(name)]

\* the catalogs: one series in the order of its codes, two series out of
\* order, a series of two jobs, and no series at all
JobCatalogs ==
    { JMap(<< JobSeries(<<"1","0">>,
                << JobEntry(<<"1","0","0","0">>, <<"s","x","x">>),
                   JobEntry(<<"1","0","0","1">>, <<"s","r","x">>),
                   JobEntry(<<"1","0","0","2">>, <<"d","x","x">>) >>) >>),
      JMap(<< JobSeries(<<"2","0">>,
                << JobEntry(<<"2","0","0","0">>, <<"s","s">>) >>),
              JobSeries(<<"1","0">>,
                << JobEntry(<<"1","0","0","2">>, <<"d","x","x">>),
                   JobEntry(<<"1","0","0","1">>, <<"s","r","x">>),
                   JobEntry(<<"1","0","0","0">>, <<"S","x","x">>) >>) >>),
      JMap(<< JobSeries(<<"1","0">>,
                << JobEntry(<<"1","0","0","1">>, <<"s","r","x">>),
                   JobEntry(<<"1","0","0","0">>, <<"s","s">>) >>) >>),
      EmptyDoc }

JobIds ==
    { <<"1","0","0","0">>, <<"1","0","0","1">>, <<"1","0","0","2">>,
      <<"1","0","0","3">>, <<"2","0","0","0">>, <<"1","0","0">> }

JobQueries ==
    { <<"x","x">>, <<"s"," ","x">>, <<"s">>, <<"X">>, <<" ">>, <<"x"," ","s"," ">> }

JobsInit ==
    /\ storeKind = "json"
    /\ platform = "posix"
    /\ readable = TRUE
    /\ opsLimit = MaxCalls
    /\ dirExists = TRUE
    /\ fileExists = TRUE
    /\ file \in {DumpLines(d) : d \in JobCatalogs}
    /\ Started("new")

JobsNext ==
    \/ JsonLoad(Writer)
    \/ \E id \in JobIds : get_next_job_info(Writer, id)
    \/ \E id \in JobIds : get_promote_chain(Writer, id)
    \/ \E q \in JobQueries : get_job_info_ex(Writer, q)

SpecJobs == JobsInit /\ [][JobsNext]_vars

\* the codes of the series at index at, and those above job_id in number
CodesOf(doc, at) == {doc.v[at].v.v[j].k : j \in 1..Len(doc.v[at].v.v)}
CodesAbove(doc, at, job_id) ==
    {c \in CodesOf(doc, at) : IntOfText(c) > IntOfText(job_id)}

\* C21: get_next_job_info(job_id) returns the record of the least code above
\* job_id among the codes of the series that holds job_id, and None when
\* job_id is the highest code of its series or is in no series.
C21_NextJob ==
    \A p \in Handlers :
        call[p].op = "get_next_job_info" =>
            LET doc == data[p]
                job_id == call[p].key
                holding == {i \in 1..Len(doc.v) : job_id \in CodesOf(doc, i)}
            IN  IF holding = {} THEN ret[p] = PyNone
                ELSE \A at \in holding :
                        IF CodesAbove(doc, at, job_id) = {} THEN ret[p] = PyNone
                        ELSE \E c \in CodesAbove(doc, at, job_id) :
                                /\ \A d \in CodesAbove(doc, at, job_id) :
                                        IntOfText(c) <= IntOfText(d)
                                /\ ret[p] = MapGet(doc.v[at].v.v, c)

\* a next job is returned from a series whose order in the file is not the
\* order of its codes
C21_Witness ==
    \E p \in Handlers :
        /\ call[p].op = "get_next_job_info"
        /\ call[p].key = <<"1","0","0","0">>
        /\ ret[p] = Job(<<"s","r","x">>)
        /\ Len(data[p].v) = 2

\* the jobs of the series of job_id whose code is job_id or above it
FromCurrent(doc, job_id) ==
    LET major_jobs == MajorJobs(doc, job_id)
    IN  {j \in 1..Len(major_jobs) : IntOfText(major_jobs[j].k) >= IntOfText(job_id)}

\* C22: for a job_id of four characters get_promote_chain returns the names
\* of the current job and of every higher job of the series that the first
\* two characters of job_id select, in ascending order of the codes.
C22_PromoteChain ==
    \A p \in Handlers :
        (call[p].op = "get_promote_chain" /\ Len(call[p].key) = 4) =>
            LET major_jobs == MajorJobs(data[p], call[p].key)
                chain == FromCurrent(data[p], call[p].key)
                Below(j) == {i \in chain :
                                IntOfText(major_jobs[i].k) < IntOfText(major_jobs[j].k)}
            IN  /\ ret[p].t = "list"
                /\ Len(ret[p].v) = Cardinality(chain)
                /\ \A j \in chain :
                        ret[p].v[Cardinality(Below(j)) + 1] = JobName(major_jobs[j].v)

\* the score and the number of matched keywords of a job under a query
ScoreOf(job_info, job_name) ==
    _calculate_match_score(JobNameFull(job_info), Keywords(job_name))
MatchedOf(job_info, job_name) ==
    MatchedKeywords(JobNameFull(job_info), Keywords(job_name))

\* the returned jobs are the jobs of the catalog that match the query, in
\* non-increasing order of score
RankedByScore(p) ==
    LET found == ret[p].v
        query == call[p].key
        jobs == AllJobs(data[p].v)
    IN  /\ ret[p].t = "list"
        /\ \A i \in 1..Len(found) : ScoreOf(found[i], query) > 0
        /\ \A j \in 1..Len(jobs) :
                (Keywords(query) # <<>> /\ ScoreOf(jobs[j], query) > 0) =>
                    \E i \in 1..Len(found) : found[i] = jobs[j]
        /\ \A i, j \in 1..Len(found) :
                i < j => ScoreOf(found[i], query) >= ScoreOf(found[j], query)

\* of the names sxx, srx, dxx the query xx returns sxx and dxx, and srx
\* nowhere before them
ScenarioHolds(p) ==
    LET found == ret[p].v
        At(name) == {i \in 1..Len(found) : JobNameFull(found[i]) = name}
    IN  (call[p].key = <<"x","x">> /\ Len(AllJobs(data[p].v)) >= 3) =>
            /\ At(<<"s","x","x">>) # {} /\ At(<<"d","x","x">>) # {}
            /\ \A i \in At(<<"s","r","x">>), j \in At(<<"s","x","x">>) \cup At(<<"d","x","x">>) :
                    j < i

\* C23 as stated: get_job_info_ex returns the matching jobs in non-increasing
\* order of score, and of two returned jobs of equal score the one with the
\* shorter full name comes first; the query xx ranks sxx and dxx above srx.
C23_ScoreThenLength ==
    \A p \in Handlers :
        call[p].op = "get_job_info_ex" =>
            /\ RankedByScore(p)
            /\ ScenarioHolds(p)
            /\ \A i, j \in 1..Len(ret[p].v) :
                    (/\ i < j
                     /\ ScoreOf(ret[p].v[i], call[p].key) = ScoreOf(ret[p].v[j], call[p].key))
                    => Len(JobName(ret[p].v[i])) <= Len(JobName(ret[p].v[j]))

\* C23, amended: get_job_info_ex returns the matching jobs in non-increasing
\* order of score, and of two returned jobs of equal score that match the
\* same number of the query's keywords the one with the shorter full name
\* comes first; the query xx ranks sxx and dxx above srx.
C23_ScoreThenMatchedThenLength ==
    \A p \in Handlers :
        call[p].op = "get_job_info_ex" =>
            /\ RankedByScore(p)
            /\ ScenarioHolds(p)
            /\ \A i, j \in 1..Len(ret[p].v) :
                    (/\ i < j
                     /\ ScoreOf(ret[p].v[i], call[p].key) = ScoreOf(ret[p].v[j], call[p].key)
                     /\ MatchedOf(ret[p].v[i], call[p].key) = MatchedOf(ret[p].v[j], call[p].key))
                    => Len(JobName(ret[p].v[i])) <= Len(JobName(ret[p].v[j]))

\* two jobs of equal score and equal number of matched keywords are returned
\* in the order of their lengths, against the order of the file
C23_Witness ==
    \E p \in Handlers :
        /\ call[p].op = "get_job_info_ex"
        /\ call[p].key = <<"s">>
        /\ AllJobs(data[p].v) = << Job(<<"s","r","x">>), Job(<<"s","s">>) >>
        /\ ret[p].v = << Job(<<"s","s">>), Job(<<"s","r","x">>) >>

(***************************************************************************)
(* SpecCreelAlone: one UnifiedCreelManager, no other writer of its file.   *)
(***************************************************************************)
AloneFish == {"carp", "eel"}

\* catch logs the manager may find: two accounts with records, an account
\* that maps to an empty dict
AloneCreels ==
    { JMap(<< [k |-> "u1", v |-> UserData(<< FishRecord("eel", <<PyInt(1)>>),
                                             FishRecord("carp", <<PyInt(3)>>) >>)],
              [k |-> "u2", v |-> UserData(<< FishRecord("carp", <<PyInt(2)>>) >>)] >>),
      JMap(<< [k |-> "u1", v |-> EmptyDoc] >>) }

\* weights: positive numbers, and what the check refuses
AloneWeights ==
    { PyInt(2), PyInt(7), PyInt(0), PyInt(0 - 1), PyFloat(0 - 5, 0 - 1), PyStr(<<"2">>) }

CreelAloneInit ==
    /\ storeKind = "creel"
    /\ platform = "posix"
    /\ readable = TRUE
    /\ opsLimit = MaxCalls
    /\ dirExists = TRUE
    /\ \/ fileExists = FALSE /\ file = <<>>
       \/ fileExists = TRUE /\ file \in {DumpLines(d) : d \in AloneCreels}
    /\ Started("idle")

CreelAloneNext ==
    \/ \E a \in Accounts, f \in AloneFish, w \in AloneWeights :
            add_fish_weight(Writer, a, f, w)
    \/ \E a \in Accounts, f \in AloneFish : get_fish_records(Writer, a, f)
    \/ CreelLoad(Writer)
    \/ CreelAcquire(Writer)
    \/ CreelOpen(Writer)
    \/ CreelWrite(Writer)
    \/ CreelExit(Writer)

SpecCreelAlone == CreelAloneInit /\ [][CreelAloneNext]_vars

\* the records of a fish among the records of an account
RecordsFor(doc, account, fish_name) ==
    SelectSeq(FishRecordsOf(doc, account), LAMBDA r : r.fish_name = fish_name)

\* new is old with one weight more for (account, fish_name): one record for
\* the pair, its weights the old ones and then weight, every other account
\* and every other record of the account as in old
OneCatchMore(old, new, account, fish_name, weight) ==
    LET before == RecordsFor(old, account, fish_name)
        after == RecordsFor(new, account, fish_name)
    IN  /\ Len(after) = 1
        /\ after[1].weights =
                Append(IF before = <<>> THEN <<>> ELSE before[1].weights, weight)
        /\ \A f \in AloneFish \ {fish_name} :
                RecordsFor(new, account, f) = RecordsFor(old, account, f)
        /\ \A a \in Accounts \ {account} :
                /\ MapHas(new.v, a) = MapHas(old.v, a)
                /\ MapHas(old.v, a) => MapGet(new.v, a) = MapGet(old.v, a)

AddCalled(p) == call[p].op = "add_fish_weight"

\* C24: add_fish_weight with a positive number, alone on the file, leaves
\* the file with one record for (account, fish_name), its weights the
\* previous ones with the weight appended, everything else unchanged; with
\* any other weight it raises ValueError and neither reads nor writes.
C24_OneCatchMore ==
    /\ [](\A p \in Handlers :
            /\ (AddCalled(p) /\ pc[p] \in {"c_acquire", "c_open"}) =>
                    OneCatchMore(CreelLoaded, data[p],
                                 call[p].account, call[p].fish, call[p].weight)
            /\ (AddCalled(p) /\ pc[p] = "idle" /\ ret[p] = PyBool(TRUE)) =>
                    fileExists /\ ~LoadFails(file) /\ json_load(file) = data[p]
            /\ (AddCalled(p) /\ InvalidWeight(call[p].weight)) =>
                    pc[p] = "idle" /\ ret[p] = RaiseRet("ValueError"))
    /\ [][\A p \in Handlers :
            /\ (AddCalled(p) /\ pc[p] \in {"c_acquire", "c_open", "c_write", "c_exit"}) =>
                    data'[p] = data[p]
            /\ (AddCalled(p)' /\ InvalidWeight(call'[p].weight) /\ call'[p] # call[p]) =>
                    UNCHANGED <<disk, data>>
            /\ (AddCalled(p) /\ pc[p] = "c_load") =>
                    (~InvalidWeight(call[p].weight) /\ pc'[p] = "c_acquire")]_vars

\* a weight has been added to a record that was in the file, next to other
\* records and accounts
C24_Witness ==
    \E p \in Handlers :
        /\ AddCalled(p) /\ pc[p] = "idle" /\ ret[p] = PyBool(TRUE)
        /\ call[p].account = "u1" /\ call[p].fish = "carp"
        /\ RecordsFor(json_load(file), "u1", "carp") =
                << FishRecord("carp", <<PyInt(3), call[p].weight>>) >>
        /\ MapHas(json_load(file).v, "u2")

(***************************************************************************)
(* Two IniFileReader on one file: what save() does to the sections of the  *)
(* other handler.                                                          *)
(***************************************************************************)
\* a section of a table: its items, or nothing
SectionItems(cfg, section) ==
    IF has_section(cfg, section) THEN <<cfg[SectionIndex(cfg, section)].items>> ELSE <<>>

\* C25: save() writes the saver's whole table.  After construction a section
\* of the table changes only by the saver's own update of that section, and
\* the rename of save() leaves every section of the file as the saver's table
\* has it: a section that another handler has saved since is reverted.
C25_SaveWritesWholeTable ==
    [][\A p \in Handlers :
          storeKind = "ini" =>
              /\ pc[p] # "new" =>
                    \A s \in Sections :
                        SectionItems(config'[p], s) # SectionItems(config[p], s) =>
                            /\ call'[p].op = "update_key" /\ call'[p].section = s
                            /\ ops'[p] = ops[p] + 1
              /\ (pc[p] = "rename" /\ pc'[p] = "finally_ok") =>
                    /\ fileExists' /\ ~ReadFails(<<>>, file')
                    /\ \A s \in Sections :
                            SectionItems(config_read(file'), s) = SectionItems(config[p], s)]_vars

\* both handlers constructed their store on the same file; the first saver
\* changed section u2, the second saver section u1: u2 is not in the file
C25_Witness ==
    /\ storeKind = "ini"
    /\ Len(saved) = 2
    /\ has_section(config[saved[1]], "u2")
    /\ ~has_section(config[saved[2]], "u2")
    /\ call[saved[2]].section = "u1"
    /\ ~has_section(config_read(file), "u2")
    /\ ReadKeyResult(config_read(file), "u1", <<"k">>, PyNone) = PyInt(Mark(saved[2]))

\* C26: constructing a BaseJsonFileHandler never destroys saved data and
\* never fails because of another construction: no construction ends with a
\* load error, and once a save() has returned the file is a whole document,
\* the one of a handler that has saved or loaded it.
C26_ConstructionKeepsData ==
    storeKind = "json" =>
        /\ \A p \in Handlers : pc[p] # "load_error"
        /\ Len(saved) >= 1 =>
                /\ fileExists
                /\ ~LoadFails(file)
                /\ \E q \in Handlers : pc[q] # "new" /\ json_load(file) = data[q]

\* the weight the handler added is in the file, in the record of its call
CatchInFile(p) ==
    /\ fileExists /\ ~LoadFails(file)
    /\ \E r \in 1..Len(RecordsFor(json_load(file), call[p].account, call[p].fish)) :
          \E i \in 1..Len(RecordsFor(json_load(file), call[p].account, call[p].fish)[r].weights) :
              RecordsFor(json_load(file), call[p].account, call[p].fish)[r].weights[i]
                  = call[p].weight

\* C27: after two add_fish_weight calls on the same catch log have both
\* returned True, the file holds both added weights.
C27_BothCatchesKept ==
    (\A p \in Handlers :
        AddCalled(p) /\ pc[p] = "idle" /\ ret[p] = PyBool(TRUE)) =>
    (\A p \in Handlers : CatchInFile(p))

\* C28: an update_data call that raises, for an empty key, a path conflict
\* or a type mismatch, leaves the tree as it was before the call.
C28_RaiseLeavesTree ==
    [][\A p \in Handlers :
          (CallStep(p, "update_data") /\ ret'[p].t = "raise") => data'[p] = data[p]]_vars

\* d[key] of a returned dict: the value, or KeyError
ItemOf(items, key) ==
    IF HasOption(items, key)
    THEN items[CHOOSE i \in 1..Len(items) : items[i].k = key].v
    ELSE RaiseRet("KeyError")

\* the handler's last call was an update_key that returned
Wrote(p) == call[p].op = "update_key" /\ ret[p].t # "raise"

\* C29: within one IniFileReader, without a save(), a read that follows
\* update_key(s, k, v) observes it: read_key(s, k) returns the coerced value
\* of v, and read_section(s)[k] and read_all()[s][k] are the same value,
\* whatever the section name and the letter case of the key.
C29_ReadYourWrite ==
    [][\A p \in Handlers :
          LET s == call[p].section
              k == call[p].key
              coerced == _convert_value(_convert_to_ini_string(call[p].value))
          IN  /\ (Wrote(p) /\ CallStep(p, "read_key")
                    /\ call'[p].section = s /\ call'[p].key = k) =>
                        ret'[p] = coerced
              /\ (Wrote(p) /\ CallStep(p, "read_section") /\ call'[p].section = s) =>
                        /\ ret'[p].t = "dict"
                        /\ ItemOf(ret'[p].v, k) = coerced
              /\ (Wrote(p) /\ CallStep(p, "read_all")) =>
                        /\ \E i \in 1..Len(ret'[p].v) : ret'[p].v[i].name = s
                        /\ \A i \in 1..Len(ret'[p].v) :
                                ret'[p].v[i].name = s =>
                                    ItemOf(ret'[p].v[i].items, k) = coerced]_vars

(***************************************************************************)
(* SpecTwoFiles: commands that save two stores.  work() saves the work     *)
(* records and then the user records, job_hopping() the user records and   *)
(* then the work records; each store is an IniFileReader with its own      *)
(* lock file.  Only what save() does to the locks is followed here, not    *)
(* what it writes.                                                         *)
(***************************************************************************)
\* the order in which a command saves its stores
SaveOrders == { <<"work", "user">>, <<"user", "work">> }

\* the store of the save() the handler is in
Saving(p) == Head(plan[p])

TwoInit ==
    /\ storeKind = "ini"
    /\ platform = "posix"
    /\ readable = TRUE
    /\ opsLimit = MaxOps
    /\ dirExists = TRUE
    /\ fileExists = TRUE /\ file \in InitialFiles("ini")
    /\ temp = [p \in Handlers |-> NoTemp]
    /\ lock = NoHolder
    /\ pc = [p \in Handlers |-> "idle"]
    /\ config = [p \in Handlers |-> <<>>]
    /\ data = [p \in Handlers |-> EmptyDoc]
    /\ fd = [p \in Handlers |-> "none"]
    /\ result = [p \in Handlers |-> "none"]
    /\ ret = [p \in Handlers |-> PyNone]
    /\ waited = [p \in Handlers |-> 0]
    /\ ops = [p \in Handlers |-> 0]
    /\ call = [p \in Handlers |-> NoCall]
    /\ saved = <<>>
    /\ locks = [f \in StoreFiles |-> NoHolder]
    /\ plan = [p \in Handlers |-> <<>>]

TwoFrame == <<storeKind, platform, readable, opsLimit, disk, temp, lock, memory, fd, ret,
              waited, call, saved>>

\* a command starts: work() or job_hopping() has updated its two stores
Command(p, order) ==
    /\ pc[p] \in {"idle", "done", "failed"}
    /\ ops[p] < opsLimit
    /\ plan' = [plan EXCEPT ![p] = order]
    /\ pc' = [pc EXCEPT ![p] = "ready"]
    /\ ops' = [ops EXCEPT ![p] = @ + 1]
    /\ UNCHANGED <<TwoFrame, locks, result>>

\* the next store's save() is called: FileLock(f"{self.file_path}.lock")
StoreSaveCall(p) ==
    /\ pc[p] = "ready"
    /\ plan[p] # <<>>
    /\ pc' = [pc EXCEPT ![p] = "acquire"]
    /\ UNCHANGED <<TwoFrame, locks, plan, ops, result>>

\* "with lock": the lock file of the store is free and is taken
StoreAcquire(p) ==
    /\ pc[p] = "acquire"
    /\ locks[Saving(p)] = NoHolder
    /\ locks' = [locks EXCEPT ![Saving(p)] = p]
    /\ pc' = [pc EXCEPT ![p] = "create"]
    /\ UNCHANGED <<TwoFrame, plan, ops, result>>

\* the body of save() under the lock: temporary file, write, fsync, rename;
\* any of the steps that can fail goes to the except clause
StoreSaveBody(p) ==
    /\ \/ pc[p] = "create" /\ pc' = [pc EXCEPT ![p] = "write"]
       \/ pc[p] = "write" /\ pc' = [pc EXCEPT ![p] = "fsync"]
       \/ pc[p] = "fsync" /\ pc' = [pc EXCEPT ![p] = "rename"]
       \/ pc[p] = "rename" /\ pc' = [pc EXCEPT ![p] = "finally_ok"]
       \/ pc[p] \in {"create", "write", "rename"} /\ pc' = [pc EXCEPT ![p] = "except"]
       \/ pc[p] = "except" /\ pc' = [pc EXCEPT ![p] = "finally_err"]
    /\ UNCHANGED <<TwoFrame, locks, plan, ops, result>>

\* the locks once handler p has let go of the one it holds
StoreReleased(p) == [f \in StoreFiles |-> IF locks[f] = p THEN NoHolder ELSE locks[f]]

\* mutant of StoreExit: the lock is not released when save() returns
StoreExitKeepsLock(p) ==
    /\ pc[p] \in {"finally_ok", "finally_err"}
    /\ plan' = [plan EXCEPT ![p] = IF pc[p] = "finally_ok" THEN Tail(@) ELSE <<>>]
    /\ pc' = [pc EXCEPT ![p] =
                IF pc[p] = "finally_err" THEN "failed"
                ELSE IF Tail(plan[p]) = <<>> THEN "done" ELSE "ready"]
    /\ result' = [result EXCEPT ![p] = IF pc[p] = "finally_ok" THEN "ok" ELSE "error"]
    /\ UNCHANGED <<TwoFrame, locks, ops>>

\* the "with lock" block is left and save() returns, or raises RuntimeError,
\* which ends the command
StoreExit(p) ==
    /\ pc[p] \in {"finally_ok", "finally_err"}
    /\ locks' = StoreReleased(p)
    /\ plan' = [plan EXCEPT ![p] = IF pc[p] = "finally_ok" THEN Tail(@) ELSE <<>>]
    /\ pc' = [pc EXCEPT ![p] =
                IF pc[p] = "finally_err" THEN "failed"
                ELSE IF Tail(plan[p]) = <<>> THEN "done" ELSE "ready"]
    /\ result' = [result EXCEPT ![p] = IF pc[p] = "finally_ok" THEN "ok" ELSE "error"]
    /\ UNCHANGED <<TwoFrame, ops>>

\* the process of the handler is killed inside save(): the operating system
\* closes its files, which frees the lock
StoreCrash(p) ==
    /\ pc[p] \in SavePcs
    /\ pc' = [pc EXCEPT ![p] = "crashed"]
    /\ locks' = StoreReleased(p)
    /\ plan' = [plan EXCEPT ![p] = <<>>]
    /\ result' = [result EXCEPT ![p] = "crashed"]
    /\ UNCHANGED <<TwoFrame, ops>>

\* what the scheduler lets a handler do sooner or later: go on in its save()
StoreStep(p) == StoreAcquire(p) \/ StoreSaveBody(p) \/ StoreExit(p)

TwoNext ==
    \/ \E p \in Handlers : \E order \in SaveOrders : Command(p, order)
    \/ \E p \in Handlers : StoreSaveCall(p)
    \/ \E p \in Handlers : StoreAcquire(p)
    \/ \E p \in Handlers : StoreSaveBody(p)
    \/ \E p \in Handlers : StoreExit(p)
    \/ \E p \in Handlers : StoreCrash(p)

SpecTwoFiles == TwoInit /\ [][TwoNext]_vars

\* a running process is not held back for ever
SpecTwoFilesFair == SpecTwoFiles /\ \A p \in Handlers : WF_vars(StoreStep(p))

LocksHeld(p) == {f \in StoreFiles : locks[f] = p}

====
